---- MODULE Spec2Model ----
(***************************************************************************)
(* Order / payment lifecycle of the JEMI backend: carts, the stock ledger  *)
(* of the products, orders with their timeline, and the three paths that   *)
(* confirm an order (direct creation, verify callback, gateway webhook).   *)
(*                                                                         *)
(* The database is one record, db; every service method is an operator     *)
(* from a database (and the request's inputs) to the database it commits   *)
(* and the outcome it reports, and every action applies one such operator. *)
(***************************************************************************)
EXTENDS Integers, Sequences, FiniteSets, TLC

VARIABLES db, last, txn

vars == <<db, last, txn>>

----------------------------------------------------------------------------
(* Universe and bounds *)

Users == {"u1", "u2"}

\* the users who fill a cart; the other users only send requests about
\* orders that are not theirs
Shoppers == {"u1"}

Products == {"A", "B"}

\* stock_quantity of every product when the run starts
InitStock == 1

\* largest quantity a cart request asks for
MaxQty == 1

\* orders persisted in one run
MaxOrders == 2

\* update_order_status is applied to an order only while its timeline is
\* shorter than this
MaxTimeline == 2

\* units of every product on the shelf when the shop with deeper shelves opens
ShopStock == 2

Quantities == 1 .. MaxQty

\* products.price (seed data: Basic Tee 12500, Snack Pack 2500)
Price == [p \in Products |-> IF p = "A" THEN 12500 ELSE 2500]

\* users.profile_completed as the identity lookup reports it
ProfileCompleted == [u \in Users |-> u = "u1"]

\* OrderStatus
OrderStatuses ==
    {"pending", "confirmed", "processing", "ready_for_pickup", "completed",
     "cancelled"}

PENDING == "pending"
CONFIRMED == "confirmed"
PROCESSING == "processing"
READY_FOR_PICKUP == "ready_for_pickup"
COMPLETED == "completed"
CANCELLED == "cancelled"

\* PaymentStatus values the services use
PAY_PENDING == "pending"
PAID == "paid"
FAILED == "failed"

\* payment_method values: OrderCreate.payment_method is free text, and
\* initialize_payment always writes "paystack"
PickupMethods == {"cash_on_pickup"}
PAYSTACK == "paystack"

----------------------------------------------------------------------------
(* Helpers *)

RECURSIVE SumOver(_, _)
SumOver(S, f) ==
    IF S = {} THEN 0
    ELSE LET x == CHOOSE y \in S : TRUE
         IN  f[x] + SumOver(S \ {x}, f)

\* cart.items: the products the user's cart holds a line for
CartLines(d, u) == {p \in Products : d.cart[u][p] > 0}

EmptyCart == [p \in Products |-> 0]

\* int(float(total) * 100): naira to kobo. Totals are whole naira here, for
\* which the float product is exact.
ToKobo(total) == total * 100

\* f"JEMI-{order.order_number}"
MakeReference(order_number) == <<"JEMI", order_number>>

\* reference.replace("JEMI-", "")
StripReference(reference) == reference[2]

\* Order ids are positions in db.orders
OrderIds(d) == 1 .. Len(d.orders)

Entry(status, note) == [status |-> status, note |-> note]

Reply(d, result) == [db |-> d, result |-> result]

----------------------------------------------------------------------------
(* Stock ledger *)

\* product.stock_quantity -= quantity; if product.stock_quantity <= 0:
\* product.in_stock = False -- for every line of items
DeductStock(d, items) ==
    LET stock == [p \in Products |->
                    IF p \in DOMAIN items
                    THEN d.stock[p] - items[p].quantity
                    ELSE d.stock[p]]
    IN  [d EXCEPT !.stock = stock,
                  !.in_stock = [p \in Products |->
                                  IF p \in DOMAIN items /\ stock[p] <= 0
                                  THEN FALSE
                                  ELSE d.in_stock[p]]]

\* a restore that puts one unit back for every line
RestoreStock_OneUnit(d, items) ==
    [d EXCEPT !.stock = [p \in Products |->
                           IF p \in DOMAIN items
                           THEN d.stock[p] + 1
                           ELSE d.stock[p]],
              !.in_stock = [p \in Products |->
                              IF p \in DOMAIN items THEN TRUE
                              ELSE d.in_stock[p]]]

\* item.product.stock_quantity += item.quantity; item.product.in_stock = True
RestoreStock(d, items) ==
    [d EXCEPT !.stock = [p \in Products |->
                           IF p \in DOMAIN items
                           THEN d.stock[p] + items[p].quantity
                           ELSE d.stock[p]],
              !.in_stock = [p \in Products |->
                              IF p \in DOMAIN items THEN TRUE
                              ELSE d.in_stock[p]]]

----------------------------------------------------------------------------
(* Cart service *)

AddItem(d, u, p, q) ==
    IF ~d.is_active[p]
    THEN Reply(d, "not_found")
    ELSE IF ~d.in_stock[p] \/ d.stock[p] < q
    THEN Reply(d, "insufficient_stock")
    ELSE IF d.cart[u][p] > 0
    THEN IF d.cart[u][p] + q > d.stock[p]
         THEN Reply(d, "insufficient_stock")
         ELSE Reply([d EXCEPT !.cart[u][p] = @ + q], "ok")
    ELSE Reply([d EXCEPT !.cart[u][p] = q], "ok")

UpdateItemQuantity(d, u, p, q) ==
    IF d.cart[u][p] = 0
    THEN Reply(d, "not_found")
    ELSE IF q <= 0
    THEN Reply([d EXCEPT !.cart[u][p] = 0], "ok")
    ELSE IF d.stock[p] < q
    THEN Reply(d, "insufficient_stock")
    ELSE Reply([d EXCEPT !.cart[u][p] = q], "ok")

RemoveItem(d, u, p) ==
    IF d.cart[u][p] = 0
    THEN Reply(d, "not_found")
    ELSE Reply([d EXCEPT !.cart[u][p] = 0], "ok")

ClearCart(d, u) == Reply([d EXCEPT !.cart[u] = EmptyCart], "ok")

----------------------------------------------------------------------------
(* Cart snapshot: the validation loop create_order and initialize_payment  *)
(* both run over cart.items                                                *)

\* the loop's check of the stock alone
LineCheck_StockOnly(d, u, p) ==
    IF d.stock[p] < d.cart[u][p]
    THEN "insufficient_stock"
    ELSE "ok"

\* the two checks the loop makes on one cart line
LineCheck(d, u, p) ==
    IF ~d.is_active[p]
    THEN "product_unavailable"
    ELSE IF d.stock[p] < d.cart[u][p]
    THEN "insufficient_stock"
    ELSE "ok"

\* cart.items comes back in the order of the rows' ids; the model's cart
\* keeps no insertion order and visits the lines in the order of the products
LineOrder == <<"A", "B">>

\* the outcome of the first line, from position k on, that fails a check
RECURSIVE FirstFailure(_, _, _)
FirstFailure(d, u, k) ==
    IF k > Len(LineOrder)
    THEN "ok"
    ELSE IF LineOrder[k] \in CartLines(d, u) /\ LineCheck(d, u, LineOrder[k]) # "ok"
    THEN LineCheck(d, u, LineOrder[k])
    ELSE FirstFailure(d, u, k + 1)

\* the first check of the loop that fails, "ok" when none does
ValidateCart(d, u) ==
    IF CartLines(d, u) = {}
    THEN "cart_empty"
    ELSE FirstFailure(d, u, 1)

\* order_items_data whose total_price is the price of one unit
SnapshotLines_UnitTotal(d, u) ==
    [p \in CartLines(d, u) |->
        [quantity |-> d.cart[u][p],
         unit_price |-> d.price[p],
         total_price |-> d.price[p]]]

\* order_items_data
SnapshotLines(d, u) ==
    [p \in CartLines(d, u) |->
        [quantity |-> d.cart[u][p],
         unit_price |-> d.price[p],
         total_price |-> d.price[p] * d.cart[u][p]]]

\* subtotal
Subtotal(lines) == SumOver(DOMAIN lines, [p \in DOMAIN lines |-> lines[p].total_price])

\* Order(...) with its OrderItem rows and its first OrderTimeline row
NewOrder(d, u, method, number, note) ==
    LET lines == SnapshotLines(d, u)
    IN  [user |-> u,
         order_number |-> number,
         subtotal |-> Subtotal(lines),
         delivery_fee |-> 0,
         total |-> Subtotal(lines),
         status |-> PENDING,
         payment_status |-> PAY_PENDING,
         payment_method |-> method,
         completed |-> FALSE,
         items |-> lines,
         timeline |-> <<Entry(PENDING, note)>>]

\* orders.order_number is unique: the flush of a second order with a number
\* already taken raises
NumberTaken(d, number) == \E i \in OrderIds(d) : d.orders[i].order_number = number

----------------------------------------------------------------------------
(* Order service *)

\* create_order on a table without the unique constraint on order_number
CreateOrder_NoUniqueCheck(d, u, method, number) ==
    IF ValidateCart(d, u) # "ok"
    THEN Reply(d, ValidateCart(d, u))
    ELSE LET order == NewOrder(d, u, method, number, "Order placed successfully")
             d1 == DeductStock(d, order.items)
         IN  Reply([d1 EXCEPT !.orders = Append(@, order),
                              !.cart[u] = EmptyCart],
                   "ok")

\* create_order that does not delete the cart's lines
CreateOrder_KeepsCart(d, u, method, number) ==
    IF ValidateCart(d, u) # "ok"
    THEN Reply(d, ValidateCart(d, u))
    ELSE IF NumberTaken(d, number)
    THEN Reply(d, "constraint_violation")
    ELSE LET order == NewOrder(d, u, method, number, "Order placed successfully")
             d1 == DeductStock(d, order.items)
         IN  Reply([d1 EXCEPT !.orders = Append(@, order)], "ok")

\* create_order: validate the cart, persist the order and its lines, deduct
\* the stock of every line, write the first timeline entry, clear the cart,
\* commit
CreateOrder(d, u, method, number) ==
    IF ValidateCart(d, u) # "ok"
    THEN Reply(d, ValidateCart(d, u))
    ELSE IF NumberTaken(d, number)
    THEN Reply(d, "constraint_violation")
    ELSE LET order == NewOrder(d, u, method, number, "Order placed successfully")
             d1 == DeductStock(d, order.items)
         IN  Reply([d1 EXCEPT !.orders = Append(@, order),
                              !.cart[u] = EmptyCart],
                   "ok")

\* cancel_order without its check of the status
CancelOrder_NoStatusCheck(d, u, id) ==
    IF id \notin OrderIds(d) \/ d.orders[id].user # u
    THEN Reply(d, "not_found")
    ELSE LET d1 == RestoreStock(d, d.orders[id].items)
         IN  Reply([d1 EXCEPT
                       !.orders[id].status = CANCELLED,
                       !.orders[id].timeline =
                           Append(@, Entry(CANCELLED, "Order cancelled by customer"))],
                   "ok")

\* cancel_order that restores the stock and writes the timeline entry but
\* leaves order.status as it was
CancelOrder_KeepsStatus(d, u, id) ==
    IF id \notin OrderIds(d) \/ d.orders[id].user # u
    THEN Reply(d, "not_found")
    ELSE IF d.orders[id].status \notin {PENDING, CONFIRMED}
    THEN Reply(d, "invalid_transition")
    ELSE LET d1 == RestoreStock(d, d.orders[id].items)
         IN  Reply([d1 EXCEPT
                       !.orders[id].timeline =
                           Append(@, Entry(CANCELLED, "Order cancelled by customer"))],
                   "ok")

\* cancel_order that looks the order up by its id alone
CancelOrder_AnyUser(d, u, id) ==
    IF id \notin OrderIds(d)
    THEN Reply(d, "not_found")
    ELSE IF d.orders[id].status \notin {PENDING, CONFIRMED}
    THEN Reply(d, "invalid_transition")
    ELSE LET d1 == RestoreStock(d, d.orders[id].items)
         IN  Reply([d1 EXCEPT
                       !.orders[id].status = CANCELLED,
                       !.orders[id].timeline =
                           Append(@, Entry(CANCELLED, "Order cancelled by customer"))],
                   "ok")

\* cancel_order that puts the payment back to PENDING
CancelOrder_ResetsPayment(d, u, id) ==
    IF id \notin OrderIds(d) \/ d.orders[id].user # u
    THEN Reply(d, "not_found")
    ELSE IF d.orders[id].status \notin {PENDING, CONFIRMED}
    THEN Reply(d, "invalid_transition")
    ELSE LET d1 == RestoreStock(d, d.orders[id].items)
         IN  Reply([d1 EXCEPT
                       !.orders[id].status = CANCELLED,
                       !.orders[id].payment_status = PAY_PENDING,
                       !.orders[id].timeline =
                           Append(@, Entry(CANCELLED, "Order cancelled by customer"))],
                   "ok")

\* cancel_order
CancelOrder(d, u, id) ==
    IF id \notin OrderIds(d) \/ d.orders[id].user # u
    THEN Reply(d, "not_found")
    ELSE IF d.orders[id].status \notin {PENDING, CONFIRMED}
    THEN Reply(d, "invalid_transition")
    ELSE LET d1 == RestoreStock(d, d.orders[id].items)
         IN  Reply([d1 EXCEPT
                       !.orders[id].status = CANCELLED,
                       !.orders[id].timeline =
                           Append(@, Entry(CANCELLED, "Order cancelled by customer"))],
                   "ok")

\* update_order_status that puts the stock back when it cancels
UpdateOrderStatus_RestoresOnCancel(d, id, new_status, note) ==
    IF id \notin OrderIds(d)
    THEN Reply(d, "not_found")
    ELSE LET d1 == IF new_status = CANCELLED
                   THEN RestoreStock(d, d.orders[id].items)
                   ELSE d
         IN  Reply([d1 EXCEPT
                       !.orders[id].status = new_status,
                       !.orders[id].completed = (@ \/ new_status = COMPLETED),
                       !.orders[id].timeline = Append(@, Entry(new_status, note))],
                   "ok")

\* update_order_status
UpdateOrderStatus_RewritesTimeline(d, id, new_status, note) ==
    IF id \notin OrderIds(d)
    THEN Reply(d, "not_found")
    ELSE Reply([d EXCEPT
                   !.orders[id].status = new_status,
                   !.orders[id].completed = (@ \/ new_status = COMPLETED),
                   !.orders[id].timeline = <<Entry(new_status, note)>>],
               "ok")

\* update_order_status that refuses to move an order out of a final status
UpdateOrderStatus_ChecksGraph(d, id, new_status, note) ==
    IF id \notin OrderIds(d)
    THEN Reply(d, "not_found")
    ELSE IF d.orders[id].status \in {COMPLETED, CANCELLED}
    THEN Reply(d, "invalid_transition")
    ELSE Reply([d EXCEPT
                   !.orders[id].status = new_status,
                   !.orders[id].completed = (@ \/ new_status = COMPLETED),
                   !.orders[id].timeline = Append(@, Entry(new_status, note))],
               "ok")

\* update_order_status that puts the payment back to PENDING when it cancels
UpdateOrderStatus_ResetsPayment(d, id, new_status, note) ==
    IF id \notin OrderIds(d)
    THEN Reply(d, "not_found")
    ELSE Reply([d EXCEPT
                   !.orders[id].status = new_status,
                   !.orders[id].payment_status =
                       IF new_status = CANCELLED THEN PAY_PENDING ELSE @,
                   !.orders[id].completed = (@ \/ new_status = COMPLETED),
                   !.orders[id].timeline = Append(@, Entry(new_status, note))],
               "ok")

UpdateOrderStatus(d, id, new_status, note) ==
    IF id \notin OrderIds(d)
    THEN Reply(d, "not_found")
    ELSE Reply([d EXCEPT
                   !.orders[id].status = new_status,
                   !.orders[id].completed = (@ \/ new_status = COMPLETED),
                   !.orders[id].timeline = Append(@, Entry(new_status, note))],
               "ok")

----------------------------------------------------------------------------
(* Payment service *)

\* the order whose order_number the reference carries, 0 when there is none
\* (order_number is unique, so at most one order matches)
OrderByNumber(d, number) ==
    IF NumberTaken(d, number)
    THEN CHOOSE i \in OrderIds(d) : d.orders[i].order_number = number
    ELSE 0

\* initialize_payment that deducts the stock when it creates the order
InitializePayment_DeductsStock(d, u, number, gateway_ok) ==
    IF CartLines(d, u) = {}
    THEN Reply(d, "cart_empty")
    ELSE IF ~ProfileCompleted[u]
    THEN Reply(d, "profile_incomplete")
    ELSE IF ValidateCart(d, u) # "ok"
    THEN Reply(d, ValidateCart(d, u))
    ELSE IF NumberTaken(d, number)
    THEN Reply(d, "constraint_violation")
    ELSE LET order == NewOrder(d, u, PAYSTACK, number,
                               "Order created, awaiting payment")
             d1 == [DeductStock(d, order.items) EXCEPT !.orders = Append(@, order)]
         IN  IF gateway_ok THEN Reply(d1, "ok")
             ELSE Reply(d1, "payment_failed")

\* initialize_payment that commits the order only once the gateway has
\* answered
InitializePayment_RollsBack(d, u, number, gateway_ok) ==
    IF CartLines(d, u) = {}
    THEN Reply(d, "cart_empty")
    ELSE IF ~ProfileCompleted[u]
    THEN Reply(d, "profile_incomplete")
    ELSE IF ValidateCart(d, u) # "ok"
    THEN Reply(d, ValidateCart(d, u))
    ELSE IF NumberTaken(d, number)
    THEN Reply(d, "constraint_violation")
    ELSE LET order == NewOrder(d, u, PAYSTACK, number,
                               "Order created, awaiting payment")
             d1 == [d EXCEPT !.orders = Append(@, order)]
         IN  IF gateway_ok THEN Reply(d1, "ok")
             ELSE Reply(d, "payment_failed")

\* initialize_payment without its check of the profile
InitializePayment_NoProfileCheck(d, u, number, gateway_ok) ==
    IF CartLines(d, u) = {}
    THEN Reply(d, "cart_empty")
    ELSE IF ValidateCart(d, u) # "ok"
    THEN Reply(d, ValidateCart(d, u))
    ELSE IF NumberTaken(d, number)
    THEN Reply(d, "constraint_violation")
    ELSE LET order == NewOrder(d, u, PAYSTACK, number,
                               "Order created, awaiting payment")
             d1 == [d EXCEPT !.orders = Append(@, order)]
         IN  IF gateway_ok THEN Reply(d1, "ok")
             ELSE Reply(d1, "payment_failed")

\* initialize_payment: validate the cart, persist a PENDING order without
\* touching stock or cart, commit, then call the gateway (gateway_ok: the
\* initialize call answered 200 with status true)
InitializePayment(d, u, number, gateway_ok) ==
    IF CartLines(d, u) = {}
    THEN Reply(d, "cart_empty")
    ELSE IF ~ProfileCompleted[u]
    THEN Reply(d, "profile_incomplete")
    ELSE IF ValidateCart(d, u) # "ok"
    THEN Reply(d, ValidateCart(d, u))
    ELSE IF NumberTaken(d, number)
    THEN Reply(d, "constraint_violation")
    ELSE LET order == NewOrder(d, u, PAYSTACK, number,
                               "Order created, awaiting payment")
             d1 == [d EXCEPT !.orders = Append(@, order)]
         IN  IF gateway_ok THEN Reply(d1, "ok")
             ELSE Reply(d1, "payment_failed")

\* a confirmation that sets the order CONFIRMED and records no payment
ConfirmPaid_OnlyConfirms(d, id, cart_user, note) ==
    [d EXCEPT !.orders[id].status = CONFIRMED]

\* a confirmation that deletes only the cart lines on the order's products
ConfirmPaid_ClearsOrderLines(d, id, cart_user, note) ==
    LET d1 == DeductStock(d, d.orders[id].items)
    IN  [d1 EXCEPT !.orders[id].payment_status = PAID,
                   !.orders[id].status = CONFIRMED,
                   !.orders[id].timeline = Append(@, Entry(CONFIRMED, note)),
                   !.cart[cart_user] =
                       [p \in Products |->
                           IF p \in DOMAIN d.orders[id].items THEN 0 ELSE @[p]]]

\* the confirmation verify_payment and handle_webhook both write: PAID and
\* CONFIRMED, the stock of every line deducted, one timeline entry, the cart
\* of cart_user emptied. The note is "Payment confirmed via Paystack (ref:
\* ...)" in the one and "Payment confirmed via webhook (ref: ...)" in the
\* other; the model keeps the words the two share.
ConfirmPaid(d, id, cart_user, note) ==
    LET d1 == DeductStock(d, d.orders[id].items)
    IN  [d1 EXCEPT !.orders[id].payment_status = PAID,
                   !.orders[id].status = CONFIRMED,
                   !.orders[id].timeline = Append(@, Entry(CONFIRMED, note)),
                   !.cart[cart_user] = EmptyCart]

\* verify_payment without its check of payment_status
VerifyPayment_NoGate(d, u, reference, gw) ==
    LET id == OrderByNumber(d, StripReference(reference))
    IN  IF ~gw.success
        THEN Reply(d, "payment_failed")
        ELSE IF id = 0 \/ d.orders[id].user # u
        THEN Reply(d, "not_found")
        ELSE IF gw.amount # ToKobo(d.orders[id].total)
        THEN Reply(d, "amount_mismatch")
        ELSE Reply(ConfirmPaid(d, id, u, "Payment confirmed"),
                   "ok")

\* verify_payment that does not look at the outcome the gateway reports
VerifyPayment_AnyOutcome(d, u, reference, gw) ==
    LET id == OrderByNumber(d, StripReference(reference))
    IN  IF id = 0 \/ d.orders[id].user # u
        THEN Reply(d, "not_found")
        ELSE IF d.orders[id].payment_status = PAID
        THEN Reply(d, "ok")
        ELSE IF gw.amount # ToKobo(d.orders[id].total)
        THEN Reply(d, "amount_mismatch")
        ELSE Reply(ConfirmPaid(d, id, u, "Payment confirmed"),
                   "ok")

\* verify_payment: gw is the gateway's answer to transaction/verify
\* (success: 200, status true and data.status "success"; amount: data.amount)
\* verify_payment that looks the order up by its number alone
VerifyPayment_AnyUser(d, u, reference, gw) ==
    LET id == OrderByNumber(d, StripReference(reference))
    IN  IF ~gw.success
        THEN Reply(d, "payment_failed")
        ELSE IF id = 0
        THEN Reply(d, "not_found")
        ELSE IF d.orders[id].payment_status = PAID
        THEN Reply(d, "ok")
        ELSE IF gw.amount # ToKobo(d.orders[id].total)
        THEN Reply(d, "amount_mismatch")
        ELSE Reply(ConfirmPaid(d, id, u, "Payment confirmed"),
                   "ok")

VerifyPayment(d, u, reference, gw) ==
    LET id == OrderByNumber(d, StripReference(reference))
    IN  IF ~gw.success
        THEN Reply(d, "payment_failed")
        ELSE IF id = 0 \/ d.orders[id].user # u
        THEN Reply(d, "not_found")
        ELSE IF d.orders[id].payment_status = PAID
        THEN Reply(d, "ok")
        ELSE IF gw.amount # ToKobo(d.orders[id].total)
        THEN Reply(d, "amount_mismatch")
        ELSE Reply(ConfirmPaid(d, id, u, "Payment confirmed"),
                   "ok")

\* handle_webhook without its check of payment_status
HandleWebhook_NoGate(d, payload) ==
    LET id == OrderByNumber(d, StripReference(payload.reference))
    IN  IF payload.event # "charge.success"
        THEN Reply(d, "ok")
        ELSE IF id = 0
        THEN Reply(d, "ok")
        ELSE Reply(ConfirmPaid(d, id, d.orders[id].user, "Payment confirmed"),
                   "ok")

\* handle_webhook that reports a conflict for an order already PAID
HandleWebhook_RejectsPaid(d, payload) ==
    LET id == OrderByNumber(d, StripReference(payload.reference))
    IN  IF payload.event # "charge.success"
        THEN Reply(d, "ok")
        ELSE IF id = 0
        THEN Reply(d, "ok")
        ELSE IF d.orders[id].payment_status = PAID
        THEN Reply(d, "conflict")
        ELSE Reply(ConfirmPaid(d, id, d.orders[id].user,
                               "Payment confirmed"),
                   "ok")

\* handle_webhook: payload is the event with data.reference and data.amount;
\* the handler returns None on every path
\* handle_webhook that confirms on every event that carries a reference
HandleWebhook_AnyEvent(d, payload) ==
    LET id == OrderByNumber(d, StripReference(payload.reference))
    IN  IF id = 0
        THEN Reply(d, "ok")
        ELSE IF d.orders[id].payment_status = PAID
        THEN Reply(d, "ok")
        ELSE Reply(ConfirmPaid(d, id, d.orders[id].user,
                               "Payment confirmed"),
                   "ok")

HandleWebhook(d, payload) ==
    LET id == OrderByNumber(d, StripReference(payload.reference))
    IN  IF payload.event # "charge.success"
        THEN Reply(d, "ok")
        ELSE IF id = 0
        THEN Reply(d, "ok")
        ELSE IF d.orders[id].payment_status = PAID
        THEN Reply(d, "ok")
        ELSE Reply(ConfirmPaid(d, id, d.orders[id].user,
                               "Payment confirmed"),
                   "ok")

----------------------------------------------------------------------------
(* Requests and their inputs *)

\* order numbers a creation may draw: every number already taken (a
\* collision) and one fresh number
DrawableNumbers(d) == 1 .. (Len(d.orders) + 1)

\* references a client or the gateway may send
References == {MakeReference(n) : n \in 1 .. MaxOrders}

\* what the gateway may answer to transaction/verify for a reference: a
\* failure, or a success carrying the order's amount or another amount
GatewayAnswers(d, reference) ==
    LET id == OrderByNumber(d, StripReference(reference))
        due == IF id = 0 THEN 0 ELSE ToKobo(d.orders[id].total)
    IN  {[success |-> FALSE, amount |-> 0]}
            \cup {[success |-> TRUE, amount |-> a] : a \in {due, due + 100}}

\* webhook deliveries
WebhookPayloads(d) ==
    UNION {{[event |-> e, reference |-> r, amount |-> g.amount] :
                e \in {"charge.success", "charge.failed"},
                g \in {h \in GatewayAnswers(d, r) : h.success}} :
           r \in References}

\* what the server answers: the request, the order it was about (0: none),
\* the outcome, whether the request committed a change, and how many cart
\* lines it deleted
Response(op, order, r) ==
    [op |-> op, order |-> order, result |-> r.result, wrote |-> r.db # db,
     cleared |-> Cardinality({l \in Users \X Products :
                                 /\ db.cart[l[1]][l[2]] > 0
                                 /\ r.db.cart[l[1]][l[2]] = 0})]

NoTxn == [pc |-> "idle"]

NoResponse ==
    [op |-> "none", order |-> 0, result |-> "ok", wrote |-> FALSE, cleared |-> 0]

\* the server has answered the previous request
Idle == last = NoResponse

Init ==
    /\ db = [stock |-> [p \in Products |-> InitStock],
             in_stock |-> [p \in Products |-> InitStock > 0],
             is_active |-> [p \in Products |-> TRUE],
             price |-> Price,
             cart |-> [u \in Users |-> EmptyCart],
             orders |-> <<>>]
    /\ last = NoResponse
    /\ txn = [verify |-> NoTxn, webhook |-> NoTxn, session |-> NoTxn]

DoAddItem ==
    /\ Idle
    /\ \E u \in Shoppers, p \in Products, q \in Quantities :
        LET r == AddItem(db, u, p, q)
        IN  /\ db' = r.db
            /\ last' = Response("add_item", 0, r)
            /\ UNCHANGED txn

DoUpdateItemQuantity ==
    /\ Idle
    /\ \E u \in Shoppers, p \in Products, q \in Quantities :
        LET r == UpdateItemQuantity(db, u, p, q)
        IN  /\ db' = r.db
            /\ last' = Response("update_item_quantity", 0, r)
            /\ UNCHANGED txn

DoRemoveItem ==
    /\ Idle
    /\ \E u \in Shoppers, p \in Products :
        LET r == RemoveItem(db, u, p)
        IN  /\ db' = r.db
            /\ last' = Response("remove_item", 0, r)
            /\ UNCHANGED txn

DoClearCart ==
    /\ Idle
    /\ \E u \in Shoppers :
        LET r == ClearCart(db, u)
        IN  /\ db' = r.db
            /\ last' = Response("clear_cart", 0, r)
            /\ UNCHANGED txn

DoCreateOrder ==
    /\ Idle
    /\ Len(db.orders) < MaxOrders
    /\ \E u \in Users, m \in PickupMethods, n \in DrawableNumbers(db) :
        LET r == CreateOrder(db, u, m, n)
        IN  /\ db' = r.db
            /\ last' = Response("create_order",
                                IF r.result = "ok" THEN Len(r.db.orders) ELSE 0,
                                r)
            /\ UNCHANGED txn

DoInitializePayment ==
    /\ Idle
    /\ Len(db.orders) < MaxOrders
    /\ \E u \in Users, n \in DrawableNumbers(db), ok \in BOOLEAN :
        LET r == InitializePayment(db, u, n, ok)
        IN  /\ db' = r.db
            /\ last' = Response("initialize_payment",
                                IF Len(r.db.orders) > Len(db.orders)
                                THEN Len(r.db.orders) ELSE 0,
                                r)
            /\ UNCHANGED txn

DoVerifyPayment ==
    /\ Idle
    /\ \E u \in Users, ref \in References :
        \E gw \in GatewayAnswers(db, ref) :
            LET r == VerifyPayment(db, u, ref, gw)
            IN  /\ db' = r.db
                /\ last' = Response("verify_payment",
                                    OrderByNumber(db, StripReference(ref)),
                                    r)
                /\ UNCHANGED txn

DoHandleWebhook ==
    /\ Idle
    /\ \E payload \in WebhookPayloads(db) :
        LET r == HandleWebhook(db, payload)
        IN  /\ db' = r.db
            /\ last' = Response("handle_webhook",
                                OrderByNumber(db, StripReference(payload.reference)),
                                r)
            /\ UNCHANGED txn

DoCancelOrder ==
    /\ Idle
    /\ \E u \in Users, id \in OrderIds(db) :
        LET r == CancelOrder(db, u, id)
        IN  /\ db' = r.db
            /\ last' = Response("cancel_order", id, r)
            /\ UNCHANGED txn

DoUpdateOrderStatus ==
    /\ Idle
    /\ \E id \in OrderIds(db), s \in OrderStatuses :
        /\ Len(db.orders[id].timeline) < MaxTimeline
        /\ LET r == UpdateOrderStatus(db, id, s, "admin")
           IN  /\ db' = r.db
               /\ last' = Response("update_order_status", id, r)
               /\ UNCHANGED txn

\* the response of the request just handled goes out
Respond ==
    /\ ~Idle
    /\ last' = NoResponse
    /\ UNCHANGED <<db, txn>>

Next ==
    \/ DoAddItem
    \/ DoUpdateItemQuantity
    \/ DoRemoveItem
    \/ DoClearCart
    \/ DoCreateOrder
    \/ DoInitializePayment
    \/ DoVerifyPayment
    \/ DoHandleWebhook
    \/ DoCancelOrder
    \/ DoUpdateOrderStatus
    \/ Respond

Spec == Init /\ [][Next]_vars

----------------------------------------------------------------------------
(* Two requests in flight: the client's verify call and the gateway's      *)
(* webhook for the same charge. Each request has its own session: it       *)
(* reads, decides on what it read, and its writes reach the database when  *)
(* it flushes and commits. Neither handler locks the order row.            *)

\* what a session works on: the order row as its first query returned it,
\* and the product rows either as they were then or as they are when the
\* loop over order.items loads them
ReadViews(seen, cur) ==
    {seen, [seen EXCEPT !.stock = cur.stock, !.in_stock = cur.in_stock]}

\* the session's flush and commit: an UPDATE of every column the handler
\* changed on the rows it loaded, an INSERT of the timeline rows it added,
\* and the DELETE of the cart lines when the handler got to clearing the cart
Flush(cur, base, new) ==
    [stock |-> [p \in Products |->
                  IF new.stock[p] # base.stock[p] THEN new.stock[p]
                  ELSE cur.stock[p]],
     in_stock |-> [p \in Products |->
                     IF new.in_stock[p] # base.in_stock[p] THEN new.in_stock[p]
                     ELSE cur.in_stock[p]],
     is_active |-> cur.is_active,
     price |-> cur.price,
     cart |-> [u \in Users |->
                 IF \E i \in OrderIds(base) :
                        /\ base.orders[i].user = u
                        /\ Len(new.orders[i].timeline) > Len(base.orders[i].timeline)
                 THEN EmptyCart
                 ELSE cur.cart[u]],
     orders |-> [i \in OrderIds(cur) |->
                   IF i \in OrderIds(base)
                   THEN [cur.orders[i] EXCEPT
                            !.payment_status =
                                IF new.orders[i].payment_status
                                       # base.orders[i].payment_status
                                THEN new.orders[i].payment_status ELSE @,
                            !.status =
                                IF new.orders[i].status # base.orders[i].status
                                THEN new.orders[i].status ELSE @,
                            !.timeline =
                                @ \o SubSeq(new.orders[i].timeline,
                                            Len(base.orders[i].timeline) + 1,
                                            Len(new.orders[i].timeline))]
                   ELSE cur.orders[i]]]

\* the gateway's true answer for a charge that succeeded for the order's total
ChargeSucceeded(d, reference) ==
    [success |-> TRUE,
     amount |-> ToKobo(d.orders[OrderByNumber(d, StripReference(reference))].total)]

\* references of the orders a charge can be made for
PayableReferences(d) ==
    {MakeReference(d.orders[i].order_number) :
        i \in {j \in OrderIds(d) : d.orders[j].payment_method = PAYSTACK}}

NoneInFlight == txn.verify.pc = "idle" /\ txn.webhook.pc = "idle"

\* verify_payment, up to its query of the order
VerifyRead ==
    /\ txn.verify.pc = "idle"
    /\ Idle
    /\ \E ref \in PayableReferences(db) :
        txn' = [txn EXCEPT !.verify =
                   [pc |-> "read",
                    user |-> db.orders[OrderByNumber(db, StripReference(ref))].user,
                    reference |-> ref,
                    gw |-> ChargeSucceeded(db, ref),
                    seen |-> db]]
    /\ UNCHANGED <<db, last>>

\* verify_payment, from its check of payment_status to its commit
VerifyCommit ==
    /\ txn.verify.pc = "read"
    /\ \E base \in ReadViews(txn.verify.seen, db) :
        LET r == VerifyPayment(base, txn.verify.user, txn.verify.reference,
                               txn.verify.gw)
        IN  /\ db' = Flush(db, base, r.db)
            /\ txn' = [txn EXCEPT !.verify =
                          [pc |-> "done",
                           reference |-> txn.verify.reference,
                           result |-> r.result,
                           wrote |-> r.db # base]]
    /\ UNCHANGED last

\* handle_webhook, up to its query of the order
WebhookRead ==
    /\ txn.webhook.pc = "idle"
    /\ Idle
    /\ \E ref \in PayableReferences(db) :
        txn' = [txn EXCEPT !.webhook =
                   [pc |-> "read",
                    payload |-> [event |-> "charge.success",
                                 reference |-> ref,
                                 amount |-> ChargeSucceeded(db, ref).amount],
                    seen |-> db]]
    /\ UNCHANGED <<db, last>>

\* handle_webhook, from its check of payment_status to its commit
WebhookCommit ==
    /\ txn.webhook.pc = "read"
    /\ \E base \in ReadViews(txn.webhook.seen, db) :
        LET r == HandleWebhook(base, txn.webhook.payload)
        IN  /\ db' = Flush(db, base, r.db)
            /\ txn' = [txn EXCEPT !.webhook =
                          [pc |-> "done",
                           reference |-> txn.webhook.payload.reference,
                           result |-> r.result,
                           wrote |-> r.db # base]]
    /\ UNCHANGED last

\* checkout (cart, then initialize_payment) happens before the charge
NextRace ==
    \/ NoneInFlight /\ DoAddItem
    \/ NoneInFlight /\ DoInitializePayment
    \/ NoneInFlight /\ Respond
    \/ VerifyRead
    \/ VerifyCommit
    \/ WebhookRead
    \/ WebhookCommit

SpecRace == Init /\ [][NextRace]_vars

----------------------------------------------------------------------------
(* The shop with deeper shelves: every product starts with ShopStock units, *)
(* so that carts and orders hold lines of more than one unit. The customer  *)
(* fills the cart one unit at a time, checks out either way, pays, cancels. *)

InitShop ==
    /\ db = [stock |-> [p \in Products |-> ShopStock],
             in_stock |-> [p \in Products |-> ShopStock > 0],
             is_active |-> [p \in Products |-> TRUE],
             price |-> Price,
             cart |-> [u \in Users |-> EmptyCart],
             orders |-> <<>>]
    /\ last = NoResponse
    /\ txn = [verify |-> NoTxn, webhook |-> NoTxn, session |-> NoTxn]

NextShop ==
    \/ DoAddItem
    \/ DoCreateOrder
    \/ DoInitializePayment
    \/ DoVerifyPayment
    \/ DoHandleWebhook
    \/ DoCancelOrder
    \/ Respond

SpecShop == InitShop /\ [][NextShop]_vars

----------------------------------------------------------------------------
(* The catalog changing under the carts: both users fill their carts and    *)
(* check out, while products are taken off the catalog (is_active is a      *)
(* column no request of this service writes; it is set on the table).       *)

\* POST /cart/items by any of the users
DoAddItemByAnyone ==
    /\ Idle
    /\ \E u \in Users, p \in Products, q \in Quantities :
        LET r == AddItem(db, u, p, q)
        IN  /\ db' = r.db
            /\ last' = Response("add_item", 0, r)
            /\ UNCHANGED txn

\* products.is_active of one product is switched
DoSetProductActive ==
    /\ Idle
    /\ \E p \in Products :
        db' = [db EXCEPT !.is_active[p] = ~@]
    /\ UNCHANGED <<last, txn>>

\* a price list with the price of p set to amount, and one that also
\* rewrites the lines of the orders on p
SetPrice_RepricesOrders(d, p, amount) ==
    [d EXCEPT !.price[p] = amount,
              !.orders = [i \in OrderIds(d) |->
                            IF p \in DOMAIN d.orders[i].items
                            THEN [d.orders[i] EXCEPT
                                     !.items[p].unit_price = amount,
                                     !.items[p].total_price =
                                         amount * d.orders[i].items[p].quantity]
                            ELSE d.orders[i]]]

\* products.price of one product is set
SetPrice(d, p, amount) == [d EXCEPT !.price[p] = amount]

\* prices a product is sold at over time: the seeded price and a raised one
Prices(p) == {Price[p], Price[p] + 500}

DoSetPrice ==
    /\ Idle
    /\ \E p \in Products :
       \E amount \in Prices(p) :
        /\ amount # db.price[p]
        /\ db' = SetPrice(db, p, amount)
    /\ UNCHANGED <<last, txn>>

NextCatalog ==
    \/ DoAddItemByAnyone
    \/ DoCreateOrder
    \/ DoInitializePayment
    \/ DoSetProductActive
    \/ Respond

SpecCatalog == Init /\ [][NextCatalog]_vars

\* orders living through price changes: the customer orders, pays and
\* cancels, the orders are moved along, and prices change in between
NextSnapshot ==
    \/ DoAddItem
    \/ DoCreateOrder
    \/ DoInitializePayment
    \/ DoVerifyPayment
    \/ DoHandleWebhook
    \/ DoCancelOrder
    \/ DoUpdateOrderStatus
    \/ DoSetPrice
    \/ Respond

\* the shop with the second product sold out
InitSnapshot ==
    /\ db = [stock |-> [p \in Products |-> IF p = "A" THEN InitStock ELSE 0],
             in_stock |-> [p \in Products |-> p = "A" /\ InitStock > 0],
             is_active |-> [p \in Products |-> TRUE],
             price |-> Price,
             cart |-> [u \in Users |-> EmptyCart],
             orders |-> <<>>]
    /\ last = NoResponse
    /\ txn = [verify |-> NoTxn, webhook |-> NoTxn, session |-> NoTxn]

SpecSnapshot == InitSnapshot /\ [][NextSnapshot]_vars

-----------------------------------------------------------------------------
(* The gateway reference as a string of characters *)

\* the digits random.choices draws from, cut down to three
Digits == {"0", "1", "2"}

\* generate_order_number draws this many random digits
RandomDigits == 4

\* datetime.now().strftime("%Y%m%d") on the days of the run
Dates == {<<"2", "0", "2", "6", "1", "1", "0", "6">>}

\* all strings of n digits
RECURSIVE DigitStrings(_)
DigitStrings(n) ==
    IF n = 0
    THEN {<<>>}
    ELSE {<<c>> \o t : c \in Digits, t \in DigitStrings(n - 1)}

\* f"JM{date_part}{random_part}"
OrderNumberStrings ==
    {<<"J", "M">> \o date \o r : date \in Dates, r \in DigitStrings(RandomDigits)}

ReferencePrefix == <<"J", "E", "M", "I", "-">>

\* a reference built with the prefix of the order number instead
ReferenceString_OtherPrefix(order_number) == <<"J", "M", "-">> \o order_number

\* f"JEMI-{order.order_number}"
ReferenceString(order_number) == ReferencePrefix \o order_number

\* str.replace(old, ""): every occurrence of old, found from the left and
\* not overlapping, is taken out
RECURSIVE Remove(_, _)
Remove(str, old) ==
    IF Len(str) < Len(old)
    THEN str
    ELSE IF SubSeq(str, 1, Len(old)) = old
    THEN Remove(SubSeq(str, Len(old) + 1, Len(str)), old)
    ELSE <<Head(str)>> \o Remove(Tail(str), old)

\* reference.replace("JEMI-", "")
RecoverOrderNumber(reference) == Remove(reference, ReferencePrefix)

NoReference == [op |-> "none", reference |-> <<>>, order_number |-> <<>>]

\* an order with a generated number is there
InitReference ==
    /\ db \in {[order_number |-> n] : n \in OrderNumberStrings}
    /\ last = NoReference
    /\ txn = [verify |-> NoTxn, webhook |-> NoTxn, session |-> NoTxn]

\* initialize_payment builds the order's reference and hands it to the gateway
BuildReference ==
    /\ last.op = "none"
    /\ last' = [op |-> "initialize_payment",
                reference |-> ReferenceString(db.order_number),
                order_number |-> <<>>]
    /\ UNCHANGED <<db, txn>>

\* verify_payment or handle_webhook gets the reference back and strips it
RecoverReference ==
    /\ last.op = "initialize_payment"
    /\ \E path \in {"verify_payment", "handle_webhook"} :
        last' = [op |-> path,
                 reference |-> last.reference,
                 order_number |-> RecoverOrderNumber(last.reference)]
    /\ UNCHANGED <<db, txn>>

NextReference ==
    \/ BuildReference
    \/ RecoverReference

SpecReference == InitReference /\ [][NextReference]_vars

-----------------------------------------------------------------------------
(* Payments that the gateway has charged: the gateway delivers its
   charge.success event and the owner's client calls verify, each as its
   own request whenever it arrives *)

\* slots an order may come to occupy
OrderSlots == 1 .. MaxOrders

\* the gateway delivers charge.success for gateway order id
DeliverWebhook(id) ==
    /\ id \in OrderIds(db)
    /\ db.orders[id].payment_method = PAYSTACK
    /\ LET r == HandleWebhook(db,
                    [event |-> "charge.success",
                     reference |-> MakeReference(db.orders[id].order_number),
                     amount |-> ToKobo(db.orders[id].total)])
       IN  /\ db' = r.db
           /\ last' = Response("handle_webhook", id, r)
           /\ UNCHANGED txn

\* the owner of gateway order id calls verify, and the gateway reports the
\* charge of the order's total as successful
OwnerVerifies(id) ==
    /\ id \in OrderIds(db)
    /\ db.orders[id].payment_method = PAYSTACK
    /\ LET r == VerifyPayment(db, db.orders[id].user,
                    MakeReference(db.orders[id].order_number),
                    [success |-> TRUE, amount |-> ToKobo(db.orders[id].total)])
       IN  /\ db' = r.db
           /\ last' = Response("verify_payment", id, r)
           /\ UNCHANGED txn

NextDelivery ==
    \/ DoAddItem
    \/ DoInitializePayment
    \/ DoCancelOrder
    \/ \E id \in OrderSlots : DeliverWebhook(id)
    \/ \E id \in OrderSlots : OwnerVerifies(id)
    \/ Respond

\* for every charged order the webhook delivery or the owner's verify call
\* is processed in the end
SpecDelivery ==
    /\ Init
    /\ [][NextDelivery]_vars
    /\ \A id \in OrderSlots : WF_vars(DeliverWebhook(id) \/ OwnerVerifies(id))

\* the back office at work: orders are placed, paid and cancelled, and an
\* administrator moves them along
NextAdmin ==
    \/ DoAddItem
    \/ DoCreateOrder
    \/ DoInitializePayment
    \/ DoHandleWebhook
    \/ DoCancelOrder
    \/ DoUpdateOrderStatus
    \/ Respond

SpecAdmin == InitSnapshot /\ [][NextAdmin]_vars

----------------------------------------------------------------------------
(* Two connections, each carrying one request at a time. A request reads   *)
(* through its own session and its writes reach the database when it       *)
(* commits; no handler locks a row or makes an UPDATE conditional.         *)

Clients == {"c1", "c2"}

InitClients ==
    /\ db = [stock |-> [p \in Products |-> InitStock],
             in_stock |-> [p \in Products |-> InitStock > 0],
             is_active |-> [p \in Products |-> TRUE],
             price |-> Price,
             cart |-> [u \in Users |-> EmptyCart],
             orders |-> <<>>]
    /\ last = NoResponse
    /\ txn = [c \in Clients |-> NoTxn]

Quiet == \A c \in Clients : txn[c].pc = "idle"

InFlight == {c \in Clients : txn[c].pc \notin {"idle", "done"}}

\* the commit of a create_order: the UPDATE of the products of the order's
\* lines to the values the session computed, the INSERT of the order, and
\* the DELETE of the user's cart lines
CommitCreated(cur, base, new, u) ==
    [cur EXCEPT
        !.stock = [p \in Products |->
                     IF new.stock[p] # base.stock[p] THEN new.stock[p] ELSE @[p]],
        !.in_stock = [p \in Products |->
                        IF new.in_stock[p] # base.in_stock[p]
                        THEN new.in_stock[p] ELSE @[p]],
        !.orders = Append(@, new.orders[Len(new.orders)]),
        !.cart[u] = EmptyCart]

\* create_order up to the end of its validation loop: the cart and the
\* products are read and every line is checked against the stock read
CreateOrderRead ==
    /\ Idle
    /\ \E c \in Clients, u \in Users :
        /\ txn[c].pc = "idle"
        /\ \A k \in Clients : txn[k].pc = "validated" => txn[k].user # u
        /\ Len(db.orders) + Cardinality(InFlight) < MaxOrders
        /\ txn' = [txn EXCEPT ![c] =
                      IF ValidateCart(db, u) = "ok"
                      THEN [pc |-> "validated", user |-> u, seen |-> db]
                      ELSE [pc |-> "done", user |-> u,
                            result |-> ValidateCart(db, u)]]
    /\ UNCHANGED <<db, last>>

\* create_order from the construction of the order to its commit; the
\* order number is checked by the database against the orders there are
CreateOrderCommit ==
    /\ \E c \in Clients, n \in DrawableNumbers(db) :
        /\ txn[c].pc = "validated"
        /\ LET base == [txn[c].seen EXCEPT !.orders = db.orders]
               r == CreateOrder(base, txn[c].user, "cash_on_pickup", n)
           IN  /\ db' = IF r.result = "ok"
                         THEN CommitCreated(db, base, r.db, txn[c].user)
                         ELSE db
               /\ txn' = [txn EXCEPT ![c] =
                             [pc |-> "done", user |-> txn[c].user,
                              result |-> r.result]]
    /\ UNCHANGED last

\* the response is sent and the connection is free again
ClientDone ==
    /\ \E c \in Clients :
        /\ txn[c].pc = "done"
        /\ txn' = [txn EXCEPT ![c] = NoTxn]
    /\ UNCHANGED <<db, last>>

NextCreateRace ==
    \/ Quiet /\ DoAddItemByAnyone
    \/ Quiet /\ Respond
    \/ CreateOrderRead
    \/ CreateOrderCommit
    \/ ClientDone

SpecCreateRace == InitClients /\ [][NextCreateRace]_vars

\* the commit of a cancel_order: the UPDATE of the products of the order's
\* lines and of the order's status to the values the session computed, and
\* the INSERT of its timeline row
CommitCancelled(cur, base, new, id) ==
    [cur EXCEPT
        !.stock = [p \in Products |->
                     IF new.stock[p] # base.stock[p] THEN new.stock[p] ELSE @[p]],
        !.in_stock = [p \in Products |->
                        IF new.in_stock[p] # base.in_stock[p]
                        THEN new.in_stock[p] ELSE @[p]],
        !.orders[id].status = new.orders[id].status,
        !.orders[id].timeline =
            @ \o SubSeq(new.orders[id].timeline,
                        Len(base.orders[id].timeline) + 1,
                        Len(new.orders[id].timeline))]

\* cancel_order by the order's owner, up to its check of the status read
CancelOrderRead ==
    /\ Idle
    /\ \E c \in Clients, id \in OrderIds(db) :
        /\ txn[c].pc = "idle"
        /\ txn' = [txn EXCEPT ![c] =
                      IF CancelOrder(db, db.orders[id].user, id).result = "ok"
                      THEN [pc |-> "checked", order |-> id, seen |-> db]
                      ELSE [pc |-> "done", order |-> id,
                            result |-> CancelOrder(db, db.orders[id].user, id).result]]
    /\ UNCHANGED <<db, last>>

\* cancel_order from the loop over order.items, which loads the products,
\* to its commit
CancelOrderCommit ==
    /\ \E c \in Clients :
        /\ txn[c].pc = "checked"
        /\ \E base \in ReadViews(txn[c].seen, db) :
            LET id == txn[c].order
                r == CancelOrder(base, base.orders[id].user, id)
            IN  /\ db' = CommitCancelled(db, base, r.db, id)
                /\ txn' = [txn EXCEPT ![c] =
                              [pc |-> "done", order |-> id, result |-> r.result]]
    /\ UNCHANGED last

\* orders are placed one at a time and then cancelled over two connections
NextCancelRace ==
    \/ Quiet /\ DoAddItem
    \/ Quiet /\ DoCreateOrder
    \/ Quiet /\ Respond
    \/ CancelOrderRead
    \/ CancelOrderCommit
    \/ ClientDone

SpecCancelRace == InitClients /\ [][NextCancelRace]_vars

----------------------------------------------------------------------------
(* One request at a time, statement by statement: the handler works on its  *)
(* session, whose changes reach the database at db.commit() and are lost    *)
(* when the request dies before it (an exception, a crash: the session is   *)
(* closed without a commit and the transaction is rolled back).             *)

\* product.stock_quantity -= quantity; if product.stock_quantity <= 0:
\* product.in_stock = False -- for one line
LineDeducted(v, p, q) ==
    [v EXCEPT !.stock[p] = @ - q,
              !.in_stock[p] = IF v.stock[p] - q <= 0 THEN FALSE ELSE @]

\* item.product.stock_quantity += item.quantity; item.product.in_stock = True
\* -- for one line
LineRestored(v, p, q) ==
    [v EXCEPT !.stock[p] = @ + q, !.in_stock[p] = TRUE]

\* statements of each handler between its checks and its commit: one per
\* line of the order, and the statements around the loop
Statements(kind) ==
    IF kind = "cancel" THEN Len(LineOrder) + 2 ELSE Len(LineOrder) + 3

\* statement k of the confirmation in verify_payment and handle_webhook
ConfirmStatement(k, v, id) ==
    IF k = 1
    THEN [v EXCEPT !.orders[id].payment_status = PAID,
                   !.orders[id].status = CONFIRMED]
    ELSE IF k <= Len(LineOrder) + 1
    THEN LET p == LineOrder[k - 1]
         IN  IF p \in DOMAIN v.orders[id].items
             THEN LineDeducted(v, p, v.orders[id].items[p].quantity)
             ELSE v
    ELSE IF k = Len(LineOrder) + 2
    THEN [v EXCEPT !.orders[id].timeline =
                       Append(@, Entry(CONFIRMED, "Payment confirmed"))]
    ELSE [v EXCEPT !.cart[v.orders[id].user] = EmptyCart]

\* statement k of create_order after its validation loop; id is the new
\* order's id and its order number
CreateStatement(k, v, u, method, id) ==
    IF k = 1
    THEN [v EXCEPT !.orders =
                       Append(@, [NewOrder(v, u, method, id, "") EXCEPT
                                     !.items = [p \in {} |-> 0],
                                     !.timeline = <<>>])]
    ELSE IF k <= Len(LineOrder) + 1
    THEN LET p == LineOrder[k - 1]
             items == v.orders[id].items
         IN  IF p \in CartLines(v, u)
             THEN [LineDeducted(v, p, v.cart[u][p]) EXCEPT
                      !.orders[id].items =
                          [q \in DOMAIN items \cup {p} |->
                              IF q = p THEN SnapshotLines(v, u)[p] ELSE items[q]]]
             ELSE v
    ELSE IF k = Len(LineOrder) + 2
    THEN [v EXCEPT !.orders[id].timeline =
                       <<Entry(PENDING, "Order placed successfully")>>]
    ELSE [v EXCEPT !.cart[u] = EmptyCart]

\* statement k of cancel_order after its two checks
CancelStatement(k, v, id) ==
    IF k <= Len(LineOrder)
    THEN LET p == LineOrder[k]
         IN  IF p \in DOMAIN v.orders[id].items
             THEN LineRestored(v, p, v.orders[id].items[p].quantity)
             ELSE v
    ELSE IF k = Len(LineOrder) + 1
    THEN [v EXCEPT !.orders[id].status = CANCELLED]
    ELSE [v EXCEPT !.orders[id].timeline =
                       Append(@, Entry(CANCELLED, "Order cancelled by customer"))]

\* the session after its next statement
Statement(session) ==
    IF session.kind = "create"
    THEN CreateStatement(session.step, session.view, session.user,
                         session.method, session.id)
    ELSE IF session.kind = "cancel"
    THEN CancelStatement(session.step, session.view, session.id)
    ELSE ConfirmStatement(session.step, session.view, session.id)

SessionClosed == txn.session.pc # "open"

OpenSession(kind, id, user, method) ==
    [pc |-> "open", kind |-> kind, id |-> id, user |-> user, method |-> method,
     step |-> 1, view |-> db]

\* create_order has validated the cart
BeginCreateOrder ==
    /\ Idle
    /\ SessionClosed
    /\ Len(db.orders) < MaxOrders
    /\ \E u \in Users, m \in PickupMethods :
        /\ ValidateCart(db, u) = "ok"
        /\ txn' = [txn EXCEPT !.session =
                      OpenSession("create", Len(db.orders) + 1, u, m)]
    /\ UNCHANGED <<db, last>>

\* verify_payment (called by the owner, the gateway reporting the charge of
\* the order's total) or handle_webhook has found the order not PAID
BeginConfirm ==
    /\ Idle
    /\ SessionClosed
    /\ \E kind \in {"verify", "webhook"}, id \in OrderIds(db) :
        /\ db.orders[id].payment_status # PAID
        /\ txn' = [txn EXCEPT !.session =
                      OpenSession(kind, id, db.orders[id].user,
                                  db.orders[id].payment_method)]
    /\ UNCHANGED <<db, last>>

\* cancel_order has found the owner's order PENDING or CONFIRMED
BeginCancel ==
    /\ Idle
    /\ SessionClosed
    /\ \E id \in OrderIds(db) :
        /\ db.orders[id].status \in {PENDING, CONFIRMED}
        /\ txn' = [txn EXCEPT !.session =
                      OpenSession("cancel", id, db.orders[id].user,
                                  db.orders[id].payment_method)]
    /\ UNCHANGED <<db, last>>

\* a statement whose change is written through to the database at once
SessionStep_WritesThrough ==
    /\ txn.session.pc = "open"
    /\ txn.session.step <= Statements(txn.session.kind)
    /\ txn' = [txn EXCEPT !.session.view = Statement(txn.session),
                          !.session.step = @ + 1]
    /\ db' = Statement(txn.session)
    /\ UNCHANGED last

\* the handler's next statement changes the session only
SessionStep ==
    /\ txn.session.pc = "open"
    /\ txn.session.step <= Statements(txn.session.kind)
    /\ txn' = [txn EXCEPT !.session.view = Statement(txn.session),
                          !.session.step = @ + 1]
    /\ UNCHANGED <<db, last>>

\* self.db.commit()
SessionCommit ==
    /\ txn.session.pc = "open"
    /\ txn.session.step > Statements(txn.session.kind)
    /\ db' = txn.session.view
    /\ txn' = [txn EXCEPT !.session.pc = "committed"]
    /\ UNCHANGED last

\* the request dies before its commit: what the session held is lost
SessionCrash ==
    /\ txn.session.pc = "open"
    /\ txn' = [txn EXCEPT !.session.pc = "crashed"]
    /\ UNCHANGED <<db, last>>

NextSession ==
    \/ SessionClosed /\ DoAddItem
    \/ SessionClosed /\ DoInitializePayment
    \/ SessionClosed /\ Respond
    \/ BeginCreateOrder
    \/ BeginConfirm
    \/ BeginCancel
    \/ SessionStep
    \/ SessionCommit
    \/ SessionCrash

SpecSession == Init /\ [][NextSession]_vars

----------------------------------------------------------------------------
(* The webhook endpoint as the network sees it: anyone can post a body with *)
(* any x-paystack-signature header; the gateway signs with the shared       *)
(* secret, others sign with what they have or send no header.               *)

\* settings.PAYSTACK_SECRET_KEY, and a key that is not the secret
Secret == "sk_test"
OtherKey == "sk_other"

\* hmac.new(key, body, sha512).hexdigest(): equal digests only for equal key
\* and equal body
Hmac(key, body) == <<key, body>>

\* request.headers.get("x-paystack-signature", "") of a request without the
\* header
NoSignature == <<>>

\* the raw body of a delivery and json.loads of it
EncodeBody(payload) == <<payload.event, payload.reference, payload.amount>>

ParseBody(body) == [event |-> body[1], reference |-> body[2], amount |-> body[3]]

\* the route without its comparison of the signature
PaystackWebhook_Unsigned(d, body, signature) ==
    HandleWebhook(d, ParseBody(body))

\* POST /payment/webhook
PaystackWebhook(d, body, signature) ==
    IF signature # Hmac(Secret, body)
    THEN Reply(d, "invalid_signature")
    ELSE HandleWebhook(d, ParseBody(body))

\* signature headers a delivery of payload may carry: none, the gateway's,
\* one made with another key, and the gateway's signature of another body
Signatures(payload) ==
    {NoSignature,
     Hmac(Secret, EncodeBody(payload)),
     Hmac(OtherKey, EncodeBody(payload)),
     Hmac(Secret, EncodeBody([payload EXCEPT !.amount = @ + 100]))}

DoPaystackWebhook ==
    /\ Idle
    /\ \E payload \in WebhookPayloads(db) :
        \E signature \in Signatures(payload) :
            LET r == PaystackWebhook(db, EncodeBody(payload), signature)
            IN  /\ db' = r.db
                /\ last' = Response("paystack_webhook",
                                    OrderByNumber(db, StripReference(payload.reference)),
                                    r)
                /\ UNCHANGED txn

NextGateway ==
    \/ DoAddItem
    \/ DoInitializePayment
    \/ DoPaystackWebhook
    \/ Respond

SpecGateway == Init /\ [][NextGateway]_vars

----------------------------------------------------------------------------
(* Properties *)

\* quantity of the order's line on product p, 0 when it has none
LineQuantity(o, p) == IF p \in DOMAIN o.items THEN o.items[p].quantity ELSE 0

IsGatewayOrder(o) == o.payment_method = PAYSTACK

ReferenceOf(o) == MakeReference(o.order_number)

\* a reconciliation of order id for its exact total: the owner's verify call
\* with the gateway reporting success, or the gateway's charge.success event
Reconcile(path, d, id) ==
    IF path = "verify"
    THEN VerifyPayment(d, d.orders[id].user, ReferenceOf(d.orders[id]),
                       [success |-> TRUE, amount |-> ToKobo(d.orders[id].total)])
    ELSE HandleWebhook(d, [event |-> "charge.success",
                           reference |-> ReferenceOf(d.orders[id]),
                           amount |-> ToKobo(d.orders[id].total)])

ReconcilePaths == {"verify", "webhook"}

EntriesWith(timeline, status) ==
    Cardinality({k \in 1 .. Len(timeline) : timeline[k].status = status})

\* C1: two reconciliations in a row of an unpaid gateway order, each by
\* verify_payment or handle_webhook and for the right amount, deduct every
\* line's quantity from its product's stock once and add one timeline entry.
C1_NoDoubleDeduction ==
    \A id \in OrderIds(db) :
        (IsGatewayOrder(db.orders[id]) /\ db.orders[id].payment_status = PAY_PENDING)
        => \A first \in ReconcilePaths, second \in ReconcilePaths :
             LET d1 == Reconcile(first, db, id).db
                 d2 == Reconcile(second, d1, id).db
             IN  /\ \A p \in Products :
                        d2.stock[p] = db.stock[p] - LineQuantity(db.orders[id], p)
                 /\ Len(d2.orders[id].timeline) = Len(db.orders[id].timeline) + 1
                 /\ d2 = d1

\* a reconciliation of a gateway order that another reconciliation had
\* already confirmed has been answered with success and wrote nothing
C1_Witness ==
    /\ last.op \in {"verify_payment", "handle_webhook"}
    /\ last.order \in OrderIds(db)
    /\ last.result = "ok"
    /\ ~last.wrote
    /\ IsGatewayOrder(db.orders[last.order])
    /\ db.orders[last.order].payment_status = PAID
    /\ EntriesWith(db.orders[last.order].timeline, CONFIRMED) = 1
    /\ Cardinality(DOMAIN db.orders[last.order].items) = 2

\* C2: when the verify call and the webhook for the same unpaid order run
\* concurrently, the stock of every line is deducted once and one CONFIRMED
\* entry is written; one of the two requests finds the order PAID and
\* writes nothing.
C2_RaceConfirmsOnce ==
    (/\ txn.verify.pc = "done"
     /\ txn.webhook.pc = "done"
     /\ txn.verify.reference = txn.webhook.reference)
    => LET id == OrderByNumber(db, StripReference(txn.verify.reference))
       IN  /\ \A p \in Products :
                  db.stock[p] = InitStock - LineQuantity(db.orders[id], p)
           /\ EntriesWith(db.orders[id].timeline, CONFIRMED) = 1
           /\ txn.verify.wrote # txn.webhook.wrote

\* C3: no product's stock_quantity is ever negative.
C3_StockNeverNegative == \A p \in Products : db.stock[p] >= 0

\* C4: a step deducts stock for an order only when it creates the order as a
\* pay-on-pickup order, or when it moves a gateway order's payment_status
\* from PENDING to PAID; in particular a verify or webhook request carrying
\* the reference of a pay-on-pickup order deducts nothing.
C4_DeductedOnce ==
    [][(\E p \in Products : db'.stock[p] < db.stock[p])
       => \/ /\ last'.op = "create_order"
             /\ Len(db'.orders) = Len(db.orders) + 1
          \/ /\ last'.op \in {"verify_payment", "handle_webhook"}
             /\ last'.order \in OrderIds(db)
             /\ IsGatewayOrder(db.orders[last'.order])
             /\ db.orders[last'.order].payment_status = PAY_PENDING
             /\ db'.orders[last'.order].payment_status = PAID]_vars

\* C5: creating an order from the cart (create_order, or the creation inside
\* initialize_payment) and then cancelling it leaves the stock of every
\* product as it was before the creation.
C5_StockConservation ==
    \A u \in Users, ok \in BOOLEAN :
        LET number == Len(db.orders) + 1
            direct == CreateOrder(db, u, "cash_on_pickup", number)
            gateway == InitializePayment(db, u, number, ok)
        IN  \A created \in {direct, gateway} :
                Len(created.db.orders) > Len(db.orders)
                => LET c == CancelOrder(created.db, u, Len(created.db.orders))
                   IN  c.result = "ok" => c.db.stock = db.stock

\* C6: a reconciliation of an unpaid gateway order carrying an amount other than the
\* order's total in kobo reports a mismatch and changes nothing, on the
\* verify path and on the webhook path.
C6_AmountIntegrity ==
    \A id \in OrderIds(db) :
        (IsGatewayOrder(db.orders[id]) /\ db.orders[id].payment_status = PAY_PENDING)
        => LET o == db.orders[id]
               wrong == ToKobo(o.total) + 100
               v == VerifyPayment(db, o.user, ReferenceOf(o),
                                  [success |-> TRUE, amount |-> wrong])
               w == HandleWebhook(db, [event |-> "charge.success",
                                       reference |-> ReferenceOf(o),
                                       amount |-> wrong])
           IN  /\ v = Reply(db, "amount_mismatch")
               /\ w.db = db

\* C7: an order whose status is COMPLETED or CANCELLED keeps that status.
C7_TerminalStatuses ==
    [][\A id \in OrderIds(db) :
          db.orders[id].status \in {COMPLETED, CANCELLED}
          => db'.orders[id].status = db.orders[id].status]_vars

\* C8: in_stock == (stock_quantity > 0) for every product.
C8_InStockFlag == \A p \in Products : db.in_stock[p] = (db.stock[p] > 0)

\* C9: cancel_order by the owner of an order whose status is PROCESSING,
\* READY_FOR_PICKUP, COMPLETED or CANCELLED fails as an invalid transition
\* and changes nothing.
C9_TransitionGuard ==
    \A id \in OrderIds(db) :
        db.orders[id].status \in {PROCESSING, READY_FOR_PICKUP, COMPLETED, CANCELLED}
        => CancelOrder(db, db.orders[id].user, id) = Reply(db, "invalid_transition")

\* the owner's cancel_order of an order that is ready for pickup has been
\* refused
C9_Witness ==
    /\ last.op = "cancel_order"
    /\ last.result = "invalid_transition"
    /\ ~last.wrote
    /\ last.order \in OrderIds(db)
    /\ db.orders[last.order].status = READY_FOR_PICKUP

C11_CancelByStranger ==
    \A id \in OrderIds(db) :
        \A u \in Users \ {db.orders[id].user} :
            CancelOrder(db, u, id) = Reply(db, "not_found")

\* the cancel_order of an order its owner could cancel, asked for by
\* another user, has been refused as not found and wrote nothing
C11_Witness ==
    /\ last.op = "cancel_order"
    /\ last.result = "not_found"
    /\ ~last.wrote
    /\ last.order \in OrderIds(db)
    /\ db.orders[last.order].status \in {PENDING, CONFIRMED}
    /\ \E p \in Products : LineQuantity(db.orders[last.order], p) > 0

\* C12: every order satisfies total = subtotal + delivery_fee, its subtotal
\* is the sum of its lines' total_price, and every line's total_price is
\* its unit_price times its quantity.
C12_TotalInvariant ==
    \A id \in OrderIds(db) :
        LET o == db.orders[id]
        IN  /\ o.total = o.subtotal + o.delivery_fee
            /\ o.subtotal = SumOver(DOMAIN o.items,
                                    [p \in DOMAIN o.items |-> o.items[p].total_price])
            /\ \A p \in DOMAIN o.items :
                   o.items[p].total_price = o.items[p].unit_price * o.items[p].quantity

\* a gateway order and a pay-on-pickup order, each of two units of A and one
\* unit of B, stand at 27500
C12_Witness ==
    \E i \in OrderIds(db), j \in OrderIds(db) :
        /\ IsGatewayOrder(db.orders[i])
        /\ db.orders[j].payment_method \in PickupMethods
        /\ \A k \in {i, j} :
               /\ LineQuantity(db.orders[k], "A") = 2
               /\ LineQuantity(db.orders[k], "B") = 1
               /\ db.orders[k].total = 27500

\* C13: for an order whose payment_status is PAID, whatever status the
\* order has been moved to, the owner's verify call for which the gateway
\* reports the charge of the order's total and the gateway's charge.success
\* delivery leave the whole database as it is and are answered with success.
C13_IdempotencyGate ==
    \A id \in OrderIds(db) :
        db.orders[id].payment_status = PAID
        => \A s \in OrderStatuses :
             LET d == IF s = db.orders[id].status THEN db
                      ELSE UpdateOrderStatus(db, id, s, "admin").db
             IN  \A path \in ReconcilePaths :
                     Reconcile(path, d, id) = Reply(d, "ok")

\* a charge.success delivery for an order that is PAID and has since been
\* cancelled has been acknowledged and wrote nothing
C13_Witness ==
    /\ last.op = "handle_webhook"
    /\ last.result = "ok"
    /\ ~last.wrote
    /\ last.order \in OrderIds(db)
    /\ db.orders[last.order].payment_status = PAID
    /\ db.orders[last.order].status = CANCELLED
    /\ EntriesWith(db.orders[last.order].timeline, CONFIRMED) = 1

\* C14: create_order on a cart whose lines are all on active products with
\* enough stock (and with an order number not yet taken) persists one order,
\* PENDING and unpaid, whose lines are the cart's lines and whose total is
\* the sum of price times quantity over them, with a timeline of one PENDING
\* entry; it deducts every line's quantity from its product's stock and
\* empties the user's cart, and changes nothing else.
C14_DirectOrder ==
    \A u \in Users, m \in PickupMethods :
        (/\ CartLines(db, u) # {}
         /\ \A p \in CartLines(db, u) :
                db.is_active[p] /\ db.stock[p] >= db.cart[u][p])
        => LET n == Len(db.orders) + 1
               r == CreateOrder(db, u, m, n)
               o == r.db.orders[n]
           IN  /\ r.result = "ok"
               /\ Len(r.db.orders) = n
               /\ SubSeq(r.db.orders, 1, n - 1) = db.orders
               /\ o.user = u
               /\ o.status = PENDING
               /\ o.payment_status = PAY_PENDING
               /\ o.payment_method = m
               /\ \A p \in Products : LineQuantity(o, p) = db.cart[u][p]
               /\ o.total = SumOver(CartLines(db, u),
                                    [p \in CartLines(db, u) |-> Price[p] * db.cart[u][p]])
               /\ o.timeline = <<Entry(PENDING, "Order placed successfully")>>
               /\ \A p \in Products : r.db.stock[p] = db.stock[p] - db.cart[u][p]
               /\ r.db.cart = [db.cart EXCEPT ![u] = EmptyCart]
               /\ r.db.is_active = db.is_active

\* create_order has just made an order of two units of A at 12500: its total
\* is 25000, A's stock is two units down, the cart is empty and the
\* timeline is one PENDING entry
C14_Witness ==
    /\ last.op = "create_order"
    /\ last.result = "ok"
    /\ last.order = Len(db.orders)
    /\ last.order > 0
    /\ LET o == db.orders[last.order]
       IN  /\ DOMAIN o.items = {"A"}
           /\ o.items["A"].quantity = 2
           /\ o.total = 25000
           /\ o.status = PENDING
           /\ o.payment_status = PAY_PENDING
           /\ o.timeline = <<Entry(PENDING, "Order placed successfully")>>
           /\ db.stock["A"] = ShopStock - 2
           /\ db.cart[o.user] = EmptyCart
           /\ last.cleared = 1

\* C15: initialize_payment never changes a product's stock_quantity or
\* in_stock nor any cart, whether the gateway call succeeds or not; on a
\* valid cart of a user with a completed profile it persists one order,
\* PENDING and unpaid, with one timeline entry.
C15_GatewayOrderFrame ==
    \A u \in Users, ok \in BOOLEAN :
        LET n == Len(db.orders) + 1
            r == InitializePayment(db, u, n, ok)
        IN  /\ r.db.stock = db.stock
            /\ r.db.in_stock = db.in_stock
            /\ r.db.cart = db.cart
            /\ (ProfileCompleted[u] /\ ValidateCart(db, u) = "ok")
                   => /\ Len(r.db.orders) = n
                      /\ SubSeq(r.db.orders, 1, n - 1) = db.orders
                      /\ r.db.orders[n].status = PENDING
                      /\ r.db.orders[n].payment_status = PAY_PENDING
                      /\ r.db.orders[n].payment_method = PAYSTACK
                      /\ Len(r.db.orders[n].timeline) = 1
                      /\ r.db.orders[n].timeline[1].status = PENDING

\* initialize_payment has just created a gateway order of two units of A and
\* got its payment URL: no unit has left the shelf and the cart still holds
\* the order's lines
C15_Witness ==
    /\ last.op = "initialize_payment"
    /\ last.result = "ok"
    /\ last.order = Len(db.orders)
    /\ last.order > 0
    /\ last.cleared = 0
    /\ LET o == db.orders[last.order]
       IN  /\ IsGatewayOrder(o)
           /\ o.status = PENDING
           /\ o.payment_status = PAY_PENDING
           /\ Len(o.timeline) = 1
           /\ LineQuantity(o, "A") = 2
           /\ \A p \in Products : db.cart[o.user][p] = LineQuantity(o, p)
           /\ \A p \in Products : db.stock[p] = ShopStock /\ db.in_stock[p]

\* C16: the reconciliation of a PENDING, unpaid gateway order for its exact
\* total, by verify_payment or by handle_webhook, succeeds, sets PAID and
\* CONFIRMED, deducts every line's quantity from its product's stock,
\* appends one timeline entry and deletes every line of the owner's cart,
\* whatever the cart holds by then; other orders and carts stay as they are.
C16_Reconciliation ==
    \A id \in OrderIds(db) :
        (/\ IsGatewayOrder(db.orders[id])
         /\ db.orders[id].status = PENDING
         /\ db.orders[id].payment_status = PAY_PENDING)
        => \A path \in ReconcilePaths :
             LET o == db.orders[id]
                 r == Reconcile(path, db, id)
             IN  /\ r.result = "ok"
                 /\ r.db.orders = [db.orders EXCEPT
                                      ![id].payment_status = PAID,
                                      ![id].status = CONFIRMED,
                                      ![id].timeline =
                                          Append(@, Entry(CONFIRMED, "Payment confirmed"))]
                 /\ \A p \in Products :
                        r.db.stock[p] = db.stock[p] - LineQuantity(o, p)
                 /\ r.db.cart = [db.cart EXCEPT ![o.user] = EmptyCart]

\* a reconciliation has just confirmed a gateway order of one line and
\* deleted two cart lines: the line checked out and one added afterwards
C16_Witness ==
    /\ last.op \in {"verify_payment", "handle_webhook"}
    /\ last.result = "ok"
    /\ last.wrote
    /\ last.order \in OrderIds(db)
    /\ last.cleared = 2
    /\ LET o == db.orders[last.order]
       IN  /\ IsGatewayOrder(o)
           /\ o.payment_status = PAID
           /\ o.status = CONFIRMED
           /\ Len(o.timeline) = 2
           /\ DOMAIN o.items = {"A"}
           /\ o.items["A"].quantity = 2
           /\ db.stock["A"] = ShopStock - 2
           /\ db.cart[o.user] = EmptyCart

\* C17: cancel_order by the owner of a PENDING or CONFIRMED order succeeds,
\* adds every line's quantity to its product's stock and sets that product's
\* in_stock, sets the order's status to CANCELLED and appends one CANCELLED
\* timeline entry; products without a line, other orders and the carts stay
\* as they are.
C17_CancelRestores ==
    \A id \in OrderIds(db) :
        db.orders[id].status \in {PENDING, CONFIRMED}
        => LET o == db.orders[id]
               c == CancelOrder(db, o.user, id)
           IN  /\ c.result = "ok"
               /\ \A p \in Products :
                      /\ c.db.stock[p] = db.stock[p] + LineQuantity(o, p)
                      /\ c.db.in_stock[p] =
                             IF LineQuantity(o, p) > 0 THEN TRUE ELSE db.in_stock[p]
               /\ c.db.orders = [db.orders EXCEPT
                                     ![id].status = CANCELLED,
                                     ![id].timeline =
                                         Append(@, Entry(CANCELLED,
                                                         "Order cancelled by customer"))]
               /\ c.db.cart = db.cart

\* the only order, a pay-on-pickup order of one unit of A and two of B, has
\* just been cancelled by its owner: both shelves are full again and B,
\* which had sold out, is in stock
C17_Witness ==
    /\ last.op = "cancel_order"
    /\ last.result = "ok"
    /\ last.order = 1
    /\ Len(db.orders) = 1
    /\ LET o == db.orders[1]
       IN  /\ o.payment_method \in PickupMethods
           /\ o.payment_status = PAY_PENDING
           /\ o.status = CANCELLED
           /\ LineQuantity(o, "A") = 1
           /\ LineQuantity(o, "B") = 2
           /\ Len(o.timeline) = 2
           /\ o.timeline[2].status = CANCELLED
    /\ \A p \in Products : db.stock[p] = ShopStock /\ db.in_stock[p]

\* C18: when the user's cart is empty, or holds a line on an inactive
\* product, or holds a line asking for more than the product's stock,
\* create_order and initialize_payment both fail and leave the whole
\* database as it is: no order, no stock change, the cart as it was,
\* whatever the other lines of the cart are.
C18_SnapshotValidation ==
    \A u \in Users :
        (\/ CartLines(db, u) = {}
         \/ \E p \in CartLines(db, u) :
                ~db.is_active[p] \/ db.stock[p] < db.cart[u][p])
        => LET n == Len(db.orders) + 1
           IN  /\ \A m \in PickupMethods :
                      /\ CreateOrder(db, u, m, n).db = db
                      /\ CreateOrder(db, u, m, n).result
                             \in {"cart_empty", "product_unavailable",
                                  "insufficient_stock"}
               /\ \A ok \in BOOLEAN :
                      /\ InitializePayment(db, u, n, ok).db = db
                      /\ InitializePayment(db, u, n, ok).result
                             \in {"cart_empty", "profile_incomplete",
                                  "product_unavailable", "insufficient_stock"}

\* initialize_payment has just been refused for insufficient stock and
\* wrote nothing: the cart's first line, on A, is valid, and its second
\* line, on B, asks for a unit of a product that is active and sold out
C18_Witness ==
    /\ last.op = "initialize_payment"
    /\ last.result = "insufficient_stock"
    /\ ~last.wrote
    /\ last.order = 0
    /\ db.cart["u2"] = EmptyCart
    /\ db.cart["u1"]["A"] > 0
    /\ db.is_active["A"]
    /\ db.stock["A"] >= db.cart["u1"]["A"]
    /\ db.cart["u1"]["B"] > 0
    /\ db.is_active["B"]
    /\ db.stock["B"] < db.cart["u1"]["B"]

\* C19: when the gateway's initialize call fails, initialize_payment fails
\* with a payment error and the order it had committed stays: PENDING and
\* unpaid, with a line for every cart line, its total, and one timeline
\* entry; stock and carts are untouched, and the order can still be paid or
\* cancelled.
C19_GatewayFailureKeepsOrder ==
    \A u \in Users :
        (ProfileCompleted[u] /\ ValidateCart(db, u) = "ok")
        => LET n == Len(db.orders) + 1
               r == InitializePayment(db, u, n, FALSE)
               o == r.db.orders[n]
           IN  /\ r.result = "payment_failed"
               /\ Len(r.db.orders) = n
               /\ SubSeq(r.db.orders, 1, n - 1) = db.orders
               /\ o.user = u
               /\ o.status = PENDING
               /\ o.payment_status = PAY_PENDING
               /\ DOMAIN o.items = CartLines(db, u)
               /\ \A p \in Products : LineQuantity(o, p) = db.cart[u][p]
               /\ o.total = SumOver(CartLines(db, u),
                                    [p \in CartLines(db, u) |-> Price[p] * db.cart[u][p]])
               /\ o.timeline = <<Entry(PENDING, "Order created, awaiting payment")>>
               /\ r.db.stock = db.stock
               /\ r.db.in_stock = db.in_stock
               /\ r.db.cart = db.cart
               /\ Reconcile("webhook", r.db, n).db.orders[n].payment_status = PAID
               /\ CancelOrder(r.db, u, n).result = "ok"

\* initialize_payment has just failed at the gateway and left its order
\* behind: one unit of A and one of B, PENDING and unpaid, the shelves and
\* the cart as they were
C19_Witness ==
    /\ last.op = "initialize_payment"
    /\ last.result = "payment_failed"
    /\ last.wrote
    /\ last.cleared = 0
    /\ last.order = Len(db.orders)
    /\ last.order > 0
    /\ LET o == db.orders[last.order]
       IN  /\ IsGatewayOrder(o)
           /\ o.status = PENDING
           /\ o.payment_status = PAY_PENDING
           /\ Len(o.timeline) = 1
           /\ DOMAIN o.items = Products
           /\ o.total = 15000
           /\ \A p \in Products : db.cart[o.user][p] = LineQuantity(o, p)
    /\ \A p \in Products : db.stock[p] = ShopStock

\* C20: a verify_payment whose gateway request does not report a successful
\* transaction fails with a payment error and changes nothing, whoever
\* calls it, whatever the reference and whatever amount the answer carries.
C20_VerifyGatewayFirst ==
    \A u \in Users, ref \in References :
        LET id == OrderByNumber(db, StripReference(ref))
            due == IF id = 0 THEN 0 ELSE ToKobo(db.orders[id].total)
        IN  \A a \in {0, due} :
                VerifyPayment(db, u, ref, [success |-> FALSE, amount |-> a])
                    = Reply(db, "payment_failed")

\* the owner's verify call for an unpaid gateway order has just failed at
\* the gateway: the order is still PENDING and unpaid, nothing was written
C20_Witness ==
    /\ last.op = "verify_payment"
    /\ last.result = "payment_failed"
    /\ ~last.wrote
    /\ last.cleared = 0
    /\ last.order \in OrderIds(db)
    /\ LET o == db.orders[last.order]
       IN  /\ IsGatewayOrder(o)
           /\ o.status = PENDING
           /\ o.payment_status = PAY_PENDING
           /\ Len(o.timeline) = 1
           /\ CartLines(db, o.user) # {}

\* C21: a webhook delivery whose signature header is missing or is not the
\* HMAC of its raw body under the shared secret is rejected and changes
\* nothing.
C21_WebhookFailsClosed ==
    \A payload \in WebhookPayloads(db) :
        \A signature \in Signatures(payload) :
            signature # Hmac(Secret, EncodeBody(payload))
            => PaystackWebhook(db, EncodeBody(payload), signature)
                   = Reply(db, "invalid_signature")

\* a delivery naming an unpaid gateway order has just been rejected for its
\* signature: the order is still PENDING and unpaid, its lines are still in
\* the cart and on the shelf
C21_Witness ==
    /\ last.op = "paystack_webhook"
    /\ last.result = "invalid_signature"
    /\ ~last.wrote
    /\ last.order \in OrderIds(db)
    /\ LET o == db.orders[last.order]
       IN  /\ IsGatewayOrder(o)
           /\ o.status = PENDING
           /\ o.payment_status = PAY_PENDING
           /\ Len(o.timeline) = 1
           /\ \A p \in Products : db.stock[p] = InitStock
           /\ CartLines(db, o.user) # {}

\* C22: a signed charge.success delivery whose reference matches no order,
\* or whose order is PAID, is acknowledged and changes nothing; a verify
\* call (the gateway reporting success) for a reference that matches no
\* order fails as not found and changes nothing.
C22_UnknownOrPaid ==
    \A ref \in References :
        LET id == OrderByNumber(db, StripReference(ref))
            due == IF id = 0 THEN 0 ELSE ToKobo(db.orders[id].total)
            body == EncodeBody([event |-> "charge.success", reference |-> ref,
                                amount |-> due])
        IN  /\ (id = 0 \/ db.orders[id].payment_status = PAID)
                   => PaystackWebhook(db, body, Hmac(Secret, body)) = Reply(db, "ok")
            /\ id = 0
                   => \A u \in Users :
                          VerifyPayment(db, u, ref, [success |-> TRUE, amount |-> due])
                              = Reply(db, "not_found")

\* a verify call for a reference that matches no order has just failed as
\* not found and wrote nothing, while an unpaid gateway order was waiting
C22_Witness ==
    /\ last.op = "verify_payment"
    /\ last.result = "not_found"
    /\ ~last.wrote
    /\ last.order = 0
    /\ Len(db.orders) = 1
    /\ IsGatewayOrder(db.orders[1])
    /\ db.orders[1].payment_status = PAY_PENDING
    /\ db.orders[1].status = PENDING

\* C23: initialize_payment for a user whose profile is not completed fails
\* as a bad request (for the profile, or for the empty cart when the cart
\* is empty) and changes nothing; the outcome does not depend on what the
\* gateway would answer, which is never asked.
C23_ProfileRequired ==
    \A u \in Users :
        ~ProfileCompleted[u]
        => \A n \in DrawableNumbers(db), ok \in BOOLEAN :
               InitializePayment(db, u, n, ok)
                   = Reply(db, IF CartLines(db, u) = {} THEN "cart_empty"
                               ELSE "profile_incomplete")

\* initialize_payment has just been refused for the profile and wrote
\* nothing, on a cart whose lines were all valid
C23_Witness ==
    /\ last.op = "initialize_payment"
    /\ last.result = "profile_incomplete"
    /\ ~last.wrote
    /\ last.order = 0
    /\ db.cart["u1"] = EmptyCart
    /\ ~ProfileCompleted["u2"]
    /\ CartLines(db, "u2") = Products
    /\ ValidateCart(db, "u2") = "ok"
    /\ db.orders = <<>>

\* what the request of the open session writes when it runs as a whole
WholeRequest(session, d) ==
    IF session.kind = "create"
    THEN CreateOrder(d, session.user, session.method, session.id).db
    ELSE IF session.kind = "cancel"
    THEN CancelOrder(d, session.user, session.id).db
    ELSE Reconcile(session.kind, d, session.id).db

\* C24: while a create_order, a cancel_order or a confirming reconciliation
\* is under way, every step leaves the database as it was or takes it to
\* the state the whole request produces: the status change, the stock
\* change of all lines, the timeline entry and the cart clearing appear
\* together at the commit, and a request that dies before its commit
\* leaves no trace.
C24_AtomicRequests ==
    [][txn.session.pc = "open"
       => \/ db' = db
          \/ /\ db' = WholeRequest(txn.session, db)
             /\ txn'.session.pc = "committed"]_vars

\* a confirmation died after it had set PAID and deducted the stock of its
\* two lines in its session: in the database the order is unpaid and
\* PENDING, and the stock and the cart are as they were
C24_Witness ==
    /\ txn.session.pc = "crashed"
    /\ txn.session.kind \in {"verify", "webhook"}
    /\ txn.session.step = Len(LineOrder) + 2
    /\ LET id == txn.session.id
       IN  /\ txn.session.view.orders[id].payment_status = PAID
           /\ DOMAIN db.orders[id].items = Products
           /\ \A p \in Products : txn.session.view.stock[p] < db.stock[p]
           /\ db.orders[id].payment_status = PAY_PENDING
           /\ db.orders[id].status = PENDING
           /\ Len(db.orders[id].timeline) = 1
           /\ \A p \in Products : db.stock[p] = InitStock
           /\ CartLines(db, db.orders[id].user) # {}

\* C25: a step changes an order's payment_status only from PENDING, and
\* only to PAID or FAILED; in particular a PAID order stays PAID.
C25_PaymentStatusMoves ==
    [][\A id \in OrderIds(db) :
          db'.orders[id].payment_status # db.orders[id].payment_status
          => /\ db.orders[id].payment_status = PAY_PENDING
             /\ db'.orders[id].payment_status \in {PAID, FAILED}]_vars

\* a gateway order that was paid has just been cancelled by its owner and
\* is still PAID
C25_Witness ==
    /\ last.op = "cancel_order"
    /\ last.result = "ok"
    /\ last.wrote
    /\ last.order \in OrderIds(db)
    /\ LET o == db.orders[last.order]
       IN  /\ IsGatewayOrder(o)
           /\ o.payment_status = PAID
           /\ o.status = CANCELLED
           /\ EntriesWith(o.timeline, CONFIRMED) = 1
           /\ EntriesWith(o.timeline, CANCELLED) = 1

\* C26: from the same state, for every order and every amount the gateway
\* reports, the owner's verify call (the gateway reporting success) and the
\* signed charge.success delivery leave the same payment_status, status,
\* stock, timeline length and carts.
C26_CallSitesAgree ==
    \A id \in OrderIds(db) :
        LET o == db.orders[id]
        IN  \A a \in {ToKobo(o.total), ToKobo(o.total) + 100} :
                LET body == EncodeBody([event |-> "charge.success",
                                        reference |-> ReferenceOf(o),
                                        amount |-> a])
                    v == VerifyPayment(db, o.user, ReferenceOf(o),
                                       [success |-> TRUE, amount |-> a]).db
                    w == PaystackWebhook(db, body, Hmac(Secret, body)).db
                IN  /\ v.orders[id].payment_status = w.orders[id].payment_status
                    /\ v.orders[id].status = w.orders[id].status
                    /\ v.stock = w.stock
                    /\ Len(v.orders[id].timeline) = Len(w.orders[id].timeline)
                    /\ v.cart = w.cart

\* an order holds stock when it is not CANCELLED and either was created by
\* create_order or is PAID
HoldsStock(o) ==
    /\ o.status # CANCELLED
    /\ (~IsGatewayOrder(o) \/ o.payment_status = PAID)

\* C27: every product's stock_quantity is its initial stock minus the
\* quantities of the lines on it of the orders that hold stock.
C27_StockLedger ==
    \A p \in Products :
        LET holders == {id \in OrderIds(db) : HoldsStock(db.orders[id])}
        IN  db.stock[p] = InitStock
                - SumOver(holders,
                          [id \in holders |-> LineQuantity(db.orders[id], p)])

\* C28: a step lowers a stock_quantity only when it is a successful
\* create_order or the step of verify_payment or handle_webhook that takes
\* an order from PENDING to PAID, and raises one only when it is a
\* successful cancel_order; in_stock changes only along with a stock
\* change; the cart operations, initialize_payment, update_order_status and
\* every request that fails leave stock_quantity and in_stock as they are.
C28_StockWriters ==
    [][/\ (\E p \in Products : db'.stock[p] < db.stock[p])
          => \/ last'.op = "create_order" /\ last'.result = "ok"
             \/ /\ last'.op \in {"verify_payment", "handle_webhook"}
                /\ last'.result = "ok"
                /\ last'.order \in OrderIds(db)
                /\ db.orders[last'.order].payment_status = PAY_PENDING
                /\ db'.orders[last'.order].payment_status = PAID
       /\ (\E p \in Products : db'.stock[p] > db.stock[p])
          => last'.op = "cancel_order" /\ last'.result = "ok"
       /\ db'.in_stock # db.in_stock => db'.stock # db.stock
       /\ (\/ last'.op \in {"add_item", "update_item_quantity", "remove_item",
                             "clear_cart", "initialize_payment",
                             "update_order_status"}
           \/ last'.result # "ok")
          => db'.stock = db.stock /\ db'.in_stock = db.in_stock]_vars

\* update_order_status has just set a pay-on-pickup order CANCELLED: the
\* unit create_order took off the shelf is still off it
C28_Witness ==
    /\ last.op = "update_order_status"
    /\ last.result = "ok"
    /\ last.order = 1
    /\ Len(db.orders) = 1
    /\ db.orders[1].payment_method \in PickupMethods
    /\ db.orders[1].status = CANCELLED
    /\ Len(db.orders[1].timeline) = 2
    /\ LineQuantity(db.orders[1], "A") = 1
    /\ db.stock["A"] = InitStock - 1
    /\ ~db.in_stock["A"]

\* what an order records at creation: its number, its amounts and its lines
Snapshot(o) ==
    [order_number |-> o.order_number,
     subtotal |-> o.subtotal,
     delivery_fee |-> o.delivery_fee,
     total |-> o.total,
     items |-> o.items]

\* C29: no step changes the order_number, subtotal, delivery_fee or total
\* of an existing order, nor the set of its lines, nor the unit_price,
\* quantity or total_price of any of them, whether the step is a price
\* change, a cart change, cancel_order, update_order_status,
\* verify_payment or handle_webhook; and no order is ever removed.
C29_ImmutableSnapshot ==
    [][/\ Len(db'.orders) >= Len(db.orders)
       /\ \A id \in OrderIds(db) :
            Snapshot(db'.orders[id]) = Snapshot(db.orders[id])]_vars

\* an order placed at the seeded price was cancelled, the price was raised
\* and a second order placed at the raised price: the first order still
\* carries the seeded price, and its total is still the sum of its lines
C29_Witness ==
    /\ Len(db.orders) = 2
    /\ db.price["A"] = Price["A"] + 500
    /\ db.orders[1].status = CANCELLED
    /\ DOMAIN db.orders[1].items = {"A"}
    /\ db.orders[1].items["A"].unit_price = Price["A"]
    /\ db.orders[1].items["A"].total_price = Price["A"]
    /\ db.orders[1].total = Price["A"]
    /\ DOMAIN db.orders[2].items = {"A"}
    /\ db.orders[2].items["A"].unit_price = Price["A"] + 500
    /\ db.orders[2].total = Price["A"] + 500
    /\ db.orders[2].payment_status = PAID

\* the later timeline is the earlier one followed by exactly one entry,
\* whose status is the given one
AppendsOne(earlier, later, status) ==
    /\ Len(later) = Len(earlier) + 1
    /\ SubSeq(later, 1, Len(earlier)) = earlier
    /\ later[Len(later)].status = status

\* C30: at every step the timeline of every existing order either stays as
\* it is or gains exactly one entry at its end, the entries before it
\* untouched; a new order starts with exactly one entry; a successful
\* cancel_order or update_order_status, and the reconciliation that takes
\* an order to PAID, append exactly one entry to their order; and the
\* status of every appended entry is the status the order has right after
\* the step.
C30_TimelineAppendOnly ==
    [][/\ Len(db'.orders) >= Len(db.orders)
       /\ \A id \in OrderIds(db) :
            LET earlier == db.orders[id].timeline
                later == db'.orders[id].timeline
                after == db'.orders[id].status
            IN  /\ later = earlier \/ AppendsOne(earlier, later, after)
                /\ after # db.orders[id].status => later # earlier
                /\ (/\ db.orders[id].payment_status # PAID
                    /\ db'.orders[id].payment_status = PAID) => later # earlier
                /\ (/\ last'.op \in {"cancel_order", "update_order_status"}
                    /\ last'.result = "ok"
                    /\ last'.order = id) => later # earlier
       /\ \A id \in OrderIds(db') \ OrderIds(db) :
            AppendsOne(<<>>, db'.orders[id].timeline, db'.orders[id].status)
       /\ (last'.op \in {"cancel_order", "update_order_status"}
              /\ last'.result = "ok") => last'.order \in OrderIds(db)]_vars

\* an order was created, confirmed by a reconciliation and then cancelled
\* by its customer: its timeline reads PENDING, CONFIRMED, CANCELLED
C30_Witness ==
    /\ last.op = "cancel_order"
    /\ last.result = "ok"
    /\ last.order \in OrderIds(db)
    /\ LET o == db.orders[last.order]
       IN  /\ o.status = CANCELLED
           /\ o.payment_status = PAID
           /\ Len(o.timeline) = 3
           /\ o.timeline[1].status = PENDING
           /\ o.timeline[2].status = CONFIRMED
           /\ o.timeline[3].status = CANCELLED

\* notes an administrator may pass to update_order_status
Notes == {"admin", "none"}

\* C31: in every reachable state, update_order_status of any existing
\* order to any status with any note succeeds whatever the order's current
\* status and owner, sets the status, appends exactly one timeline entry
\* with that status and note, marks the order completed exactly when the
\* new status is COMPLETED, and changes nothing else (no stock, in_stock,
\* payment_status, cart or other order); of an unknown order id it answers
\* not_found and changes nothing.
C31_AdvanceStatus ==
    /\ \A id \in OrderIds(db), s \in OrderStatuses, note \in Notes :
        LET r == UpdateOrderStatus(db, id, s, note)
            o == db.orders[id]
        IN  /\ r.result = "ok"
            /\ r.db = [db EXCEPT
                         !.orders[id] =
                            [o EXCEPT
                                !.status = s,
                                !.completed = (o.completed \/ s = COMPLETED),
                                !.timeline = Append(o.timeline, Entry(s, note))]]
    /\ \A id \in {0, Len(db.orders) + 1}, s \in OrderStatuses :
        UpdateOrderStatus(db, id, s, "admin") = Reply(db, "not_found")

\* an unpaid gateway order, its stock never deducted, has been set
\* COMPLETED by update_order_status straight from PENDING
C31_Witness ==
    /\ last.op = "update_order_status"
    /\ last.result = "ok"
    /\ last.order \in OrderIds(db)
    /\ LET o == db.orders[last.order]
       IN  /\ IsGatewayOrder(o)
           /\ o.status = COMPLETED
           /\ o.timeline = <<Entry(PENDING, "Order created, awaiting payment"),
                             Entry(COMPLETED, "admin")>>
           /\ o.payment_status = PAY_PENDING
           /\ o.completed
           /\ db.stock["A"] = InitStock

\* C32: the reference built for an order is the prefix followed by its
\* order_number; what verify_payment and handle_webhook recover from it is
\* exactly that order_number; and the reference of no other order number
\* is recovered to it, so the lookup finds the order the reference was
\* built for and no other.
C32_ReferenceRoundTrip ==
    /\ last.op # "none" =>
          /\ SubSeq(last.reference, 1, Len(ReferencePrefix)) = ReferencePrefix
          /\ SubSeq(last.reference, Len(ReferencePrefix) + 1, Len(last.reference))
                = db.order_number
    /\ last.op \in {"verify_payment", "handle_webhook"} =>
          last.order_number = db.order_number
    /\ \A other \in OrderNumberStrings \ {db.order_number} :
          RecoverOrderNumber(ReferenceString(other)) # db.order_number

\* the webhook has recovered the order number of a reference
C32_Witness ==
    /\ last.op = "handle_webhook"
    /\ Len(last.reference) = Len(db.order_number) + Len(ReferencePrefix)
    /\ last.order_number = db.order_number
    /\ SubSeq(db.order_number, 1, 2) = <<"J", "M">>
    /\ db.order_number[Len(db.order_number)] = "2"

UniqueNumbers(d) ==
    \A i, j \in OrderIds(d) :
        d.orders[i].order_number = d.orders[j].order_number => i = j

C34_EventualConfirmation ==
    /\ \A id \in OrderSlots :
          (id \in OrderIds(db) /\ db.orders[id].payment_method = PAYSTACK)
             ~> (id \in OrderIds(db) /\ db.orders[id].payment_status = PAID)
    /\ [][\A id \in OrderIds(db) :
              db.orders[id].payment_status = PAID =>
                 /\ db'.orders[id].payment_status = PAID
                 /\ (/\ last'.op \in {"verify_payment", "handle_webhook"}
                     /\ last'.order = id) => db' = db]_vars

\* a gateway order is PAID and a further verify call for it was answered
\* without a write
C34_Witness ==
    /\ last.op = "verify_payment"
    /\ last.result = "ok"
    /\ ~last.wrote
    /\ last.order \in OrderIds(db)
    /\ db.orders[last.order].payment_method = PAYSTACK
    /\ db.orders[last.order].payment_status = PAID
    /\ db.orders[last.order].status = CONFIRMED
    /\ Len(db.orders[last.order].timeline) = 2

\* C35: in every reachable state, verify_payment with the reference of an
\* existing order, called by a user who is not the order's owner while the
\* gateway reports a successful charge (of the order's total or of another
\* amount), answers not_found and leaves the whole database as it is:
\* the order, every stock, every timeline and every cart.
C35_VerifyByStranger ==
    \A id \in OrderIds(db), u \in Users :
        u # db.orders[id].user =>
            \A a \in {ToKobo(db.orders[id].total), ToKobo(db.orders[id].total) + 100} :
                VerifyPayment(db, u, MakeReference(db.orders[id].order_number),
                              [success |-> TRUE, amount |-> a])
                    = Reply(db, "not_found")

\* a user who does not own an unpaid gateway order called verify_payment
\* with its reference: not_found, nothing written, the order still
\* unpaid, its unit still on the shelf and in the owner's cart
C35_Witness ==
    /\ last.op = "verify_payment"
    /\ last.result = "not_found"
    /\ ~last.wrote
    /\ last.order \in OrderIds(db)
    /\ LET o == db.orders[last.order]
       IN  /\ o.user = "u1"
           /\ o.payment_method = PAYSTACK
           /\ o.payment_status = PAY_PENDING
           /\ o.status = PENDING
           /\ Len(o.timeline) = 1
    /\ db.cart["u1"]["A"] > 0
    /\ db.stock["A"] = ShopStock

\* C36: with create_order requests of different users running at the same
\* time, every product's stock_quantity is its initial stock minus the
\* quantities of the lines on it of the orders created, and is never
\* negative.
C36_ConcurrentCreate ==
    \A p \in Products :
        /\ db.stock[p] >= 0
        /\ db.stock[p] = InitStock
              - SumOver(OrderIds(db),
                        [id \in OrderIds(db) |-> LineQuantity(db.orders[id], p)])

\* C37: with cancel_order requests running at the same time, every order
\* has at most one CANCELLED timeline entry, and every product's stock is
\* its initial stock minus the quantities of the orders that are not
\* cancelled: each cancelled line was restored exactly once.
C37_ConcurrentCancel ==
    /\ \A id \in OrderIds(db) :
          EntriesWith(db.orders[id].timeline, CANCELLED) <= 1
    /\ \A p \in Products :
          LET open == {id \in OrderIds(db) : db.orders[id].status # CANCELLED}
          IN  db.stock[p] = InitStock
                - SumOver(open, [id \in open |-> LineQuantity(db.orders[id], p)])

\* C38: a cancel_order or update_order_status step changes the
\* payment_status of no order, and in every state cancelling any order
\* either way would leave its payment_status as it is; and a verify_payment or handle_webhook step
\* for an order that is PAID, cancelled or not, changes nothing: its
\* status stays, no stock is deducted, no timeline entry is added.
C38_CancelKeepsPayment ==
    [][/\ last'.op \in {"cancel_order", "update_order_status"} =>
            \A id \in OrderIds(db) :
                db'.orders[id].payment_status = db.orders[id].payment_status
       /\ \A id \in OrderIds(db) :
            LET c == CancelOrder(db, db.orders[id].user, id).db
                a == UpdateOrderStatus(db, id, CANCELLED, "admin").db
            IN  /\ c.orders[id].payment_status = db.orders[id].payment_status
                /\ a.orders[id].payment_status = db.orders[id].payment_status
       /\ \A id \in OrderIds(db) :
            (/\ db.orders[id].payment_status = PAID
             /\ last'.op \in {"verify_payment", "handle_webhook"}
             /\ last'.order = id)
            => /\ db' = db
               /\ last'.result \in {"ok", "not_found", "payment_failed"}]_vars

\* a PAID order was cancelled by its customer, its unit went back on the
\* shelf, and a webhook for it that came afterwards was acknowledged
\* without a write: the order is still CANCELLED and PAID
C38_Witness ==
    /\ last.op = "handle_webhook"
    /\ last.result = "ok"
    /\ ~last.wrote
    /\ last.order \in OrderIds(db)
    /\ LET o == db.orders[last.order]
       IN  /\ o.payment_method = PAYSTACK
           /\ o.payment_status = PAID
           /\ o.status = CANCELLED
           /\ Len(o.timeline) = 3
           /\ o.timeline[2].status = CONFIRMED
           /\ o.timeline[3].status = CANCELLED
           /\ db.stock["A"] = InitStock
           /\ LineQuantity(o, "A") = 1
    /\ Len(db.orders) = 1

\* the timeline entries a reconciliation wrote: status CONFIRMED with the
\* payment note
ReconciliationEntries(timeline) ==
    {k \in 1 .. Len(timeline) :
        timeline[k] = Entry(CONFIRMED, "Payment confirmed")}

\* C39: every order has a timeline that starts with a PENDING entry, and
\* every order that is PAID has exactly one timeline entry written by a
\* reconciliation.
C39_TimelineShape ==
    \A id \in OrderIds(db) :
        /\ Len(db.orders[id].timeline) >= 1
        /\ db.orders[id].timeline[1].status = PENDING
        /\ db.orders[id].payment_status = PAID
             => Cardinality(ReconciliationEntries(db.orders[id].timeline)) = 1

\* events the gateway sends besides charge.success
OtherEvents == {"charge.failed", "transfer.success", "refund.processed"}

\* C40: in every reachable state, a webhook that carries the signature of
\* its body under the secret key and an event other than charge.success,
\* whatever reference and amount it names, is acknowledged with success
\* and leaves the whole database as it is: no order, stock, timeline or
\* cart changes.
C40_OtherEventsIgnored ==
    \A payload \in WebhookPayloads(db), event \in OtherEvents :
        LET body == EncodeBody([payload EXCEPT !.event = event])
        IN  PaystackWebhook(db, body, Hmac(Secret, body)) = Reply(db, "ok")

\* a webhook for an unpaid gateway order was acknowledged and wrote
\* nothing: the order is still unpaid, its unit on the shelf and in the cart
C40_Witness ==
    /\ last.op = "paystack_webhook"
    /\ last.result = "ok"
    /\ ~last.wrote
    /\ last.order \in OrderIds(db)
    /\ db.orders[last.order].payment_method = PAYSTACK
    /\ db.orders[last.order].payment_status = PAY_PENDING
    /\ db.orders[last.order].status = PENDING
    /\ Len(db.orders[last.order].timeline) = 1
    /\ db.stock["A"] = InitStock
    /\ db.cart["u1"]["A"] = 1

====
